---- MODULE Spec2Model ----
(***************************************************************************)
(* Model of archive-file.py: the generational archive retention scheduler. *)
(*                                                                         *)
(* Encoding of Python values:                                              *)
(*   - a str is a sequence of one-character strings;                       *)
(*   - a list or an archive dict lives in `heap` and is named by its id,   *)
(*     so that in-place mutation and aliasing are visible; the id 0 is     *)
(*     Python's None;                                                      *)
(*   - a tracker section (dict period -> list) is a function from period   *)
(*     names to list ids;                                                  *)
(*   - a dict whose iteration order matters (PERIODS, the tracker) is a    *)
(*     sequence of entries in insertion order;                             *)
(*   - the float version is held in tenths (2.0 is 20).                    *)
(***************************************************************************)
EXTENDS Integers, Sequences, FiniteSets, TLC

VARIABLES
  pc,                  \* position of the invocation in main()
  NOW,                 \* module-level NOW, the process start time (line 12)
  args,                \* the parsed command line (lines 63-64)
  periods,             \* the periods dict in use (PERIODS in main)
  disk,                \* names of the regular files in the destination directory
  tracker_file,        \* the tracker file: [present, lines]
  heap,                \* Python objects: [lists, dicts]
  tracker,             \* main's `tracker`: entries [path, section] in insertion order
  tracker_section,     \* main's `tracker_section` (the old section)
  new_tracker_section, \* main's `new_tracker_section`
  wanted,              \* main's `wanted`
  files_to_delete,     \* main's `files_to_delete`
  loaded,              \* history: the content of the old section when it was obtained
  planned,             \* history: the content of the new section as get_plan returned it
  plan_disk,           \* history: the content of the destination when get_plan ran
  store,               \* the tracker store under test: [input, text, result]
  runs,                \* number of invocations started so far
  target_size,         \* os.path.getsize(args.file); -1 when the target is no file
  other,               \* a second invocation of main(), its state as a record
  race,                \* history: who wrote the tracker file first, and whether the
                       \* invocations overlapped then
  history              \* history: the files the runs created or adopted as archives,
                       \* the command line and clock of the last completed run, and
                       \* the tracker file as this run loaded it

vars == <<pc, NOW, args, periods, disk, tracker_file, heap, tracker, tracker_section,
          new_tracker_section, wanted, files_to_delete, loaded, planned, plan_disk,
          store, runs, target_size, other, race, history>>

----------------------------------------------------------------------------
(* Period names and the PERIODS table (lines 13-21). *)

hourly  == <<"h","o","u","r","l","y">>
daily   == <<"d","a","i","l","y">>
weekly  == <<"w","e","e","k","l","y">>
monthly == <<"m","o","n","t","h","l","y">>
yearly  == <<"y","e","a","r","l","y">>
forever == <<"f","o","r","e","v","e","r">>

\* 60*60*24*365.2425 = 31556952 exactly; kept within 32 bits as 216*3652425/25.
YearSeconds == (216 * 3652425) \div 25

PERIODS(now0) ==
  << [name |-> hourly,  length |-> 60*60],
     [name |-> daily,   length |-> 24*60*60],
     [name |-> weekly,  length |-> 7*24*60*60],
     [name |-> monthly, length |-> YearSeconds \div 12],
     [name |-> yearly,  length |-> YearSeconds],
     [name |-> forever, length |-> now0 - 1] >>

\* VERSION = 2.0, in tenths.
VERSION == 20

\* periods[period]
PeriodLength(ps, period) ==
  ps[CHOOSE k \in 1..Len(ps) : ps[k].name = period].length

PeriodKeys(ps) == {ps[k].name : k \in 1..Len(ps)}

----------------------------------------------------------------------------
(* The heap. *)

None == 0

EmptyHeap == [lists |-> <<>>, dicts |-> <<>>]

\* Python's == on two slot values: None, or archive dicts compared by content.
ArchiveEq(h, a, b) ==
  IF a = None \/ b = None THEN a = b ELSE h.dicts[a] = h.dicts[b]

\* tracker_section.get(period, [])
SectionGet(h, section, period) ==
  IF period \in DOMAIN section THEN h.lists[section[period]] ELSE <<>>

\* The content of a slot, a list and a section, without object identity:
\* a slot is <<>> (None) or <<[timestamp, file]>>.
SlotValue(h, ref) == IF ref = None THEN <<>> ELSE <<h.dicts[ref]>>

ListValue(h, lid) == [i \in 1..Len(h.lists[lid]) |-> SlotValue(h, h.lists[lid][i])]

SectionValue(h, section) == [p \in DOMAIN section |-> ListValue(h, section[p])]

----------------------------------------------------------------------------
(* get_ordered_periods (lines 329-333): sorted() is stable. *)

InsertByLength(sorted, item) ==
  LET k == Cardinality({j \in 1..Len(sorted) : sorted[j].length <= item.length})
  IN SubSeq(sorted, 1, k) \o <<item>> \o SubSeq(sorted, k + 1, Len(sorted))

RECURSIVE SortByLength(_)
SortByLength(items) ==
  IF items = <<>> THEN <<>>
  ELSE InsertByLength(SortByLength(SubSeq(items, 1, Len(items) - 1)), items[Len(items)])

\* Mutant: the periods in the dict's own order, not sorted by length.
UnsortedPeriods(ps) == [k \in 1..Len(ps) |-> ps[k].name]

get_ordered_periods(ps) ==
  LET sorted == SortByLength(ps)
  IN [k \in 1..Len(sorted) |-> sorted[k].name]

----------------------------------------------------------------------------
(* get_plan (lines 218-267). *)

\* Lines 230-232: the archives of one period's list, added to the pool unless an
\* equal one is already there. None is pooled like any other value.
RECURSIVE PoolCopies(_, _, _)
PoolCopies(h, all_archives, copies) ==
  IF copies = <<>> THEN all_archives
  ELSE LET archive == Head(copies)
           present == \E k \in 1..Len(all_archives) : ArchiveEq(h, all_archives[k], archive)
       IN PoolCopies(h, IF present THEN all_archives ELSE Append(all_archives, archive),
                     Tail(copies))

\* Lines 229-232: `for period in periods` follows the dict's insertion order.
RECURSIVE PoolPeriods(_, _, _, _)
PoolPeriods(h, section, ps, all_archives) ==
  IF ps = <<>> THEN all_archives
  ELSE PoolPeriods(h, section, Tail(ps),
                   PoolCopies(h, all_archives, SectionGet(h, section, Head(ps).name)))

\* Mutant: the archive's file is not looked for.
CandidatesUnchecked(h, all_archives, slot_start, slot_end, exists) ==
  SelectSeq(all_archives,
            LAMBDA archive : /\ archive # None
                             /\ slot_start < h.dicts[archive].timestamp
                             /\ h.dicts[archive].timestamp <= slot_end)

\* Mutant: the window closed at its older end, [slot_start, slot_end].
CandidatesClosedStart(h, all_archives, slot_start, slot_end, exists) ==
  SelectSeq(all_archives,
            LAMBDA archive : /\ archive # None
                             /\ slot_start <= h.dicts[archive].timestamp
                             /\ h.dicts[archive].timestamp <= slot_end
                             /\ h.dicts[archive].file \in exists)

\* Lines 243-252: the pooled archives inside (slot_start, slot_end] whose file exists.
Candidates(h, all_archives, slot_start, slot_end, exists) ==
  SelectSeq(all_archives,
            LAMBDA archive : /\ archive # None
                             /\ slot_start < h.dicts[archive].timestamp
                             /\ h.dicts[archive].timestamp <= slot_end
                             /\ h.dicts[archive].file \in exists)

\* Mutant: candidates[0] without the sort.
FirstCandidate(h, candidates) == candidates[1]

\* Lines 255-256: candidates.sort(key=timestamp) is stable, so candidates[0] is the
\* first candidate, in pool order, that has the smallest timestamp.
OldestCandidate(h, candidates) ==
  candidates[CHOOSE k \in 1..Len(candidates) :
               \A j \in 1..Len(candidates) :
                  \/ h.dicts[candidates[k]].timestamp < h.dicts[candidates[j]].timestamp
                  \/ /\ h.dicts[candidates[k]].timestamp = h.dicts[candidates[j]].timestamp
                     /\ k <= j]

\* Mutant: every empty slot is wanted, whatever its index.
PlanSlotWantAll(acc, c, i) ==
  LET slot_start_age == i * c.period_length
      slot_end_age   == slot_start_age + c.period_length
      slot_end       == c.now - slot_start_age
      slot_start     == c.now - slot_end_age
      candidates     == Candidates(acc.heap, c.all_archives, slot_start, slot_end, c.exists)
  IN IF candidates # <<>>
     THEN LET chosen == acc.heap.dicts[OldestCandidate(acc.heap, candidates)]
              id     == Len(acc.heap.dicts) + 1
          IN [acc EXCEPT !.heap.dicts = Append(@, chosen),
                         !.heap.lists[c.copies] = Append(@, id)]
     ELSE [acc EXCEPT !.heap.lists[c.copies] = Append(@, None),
                      !.wanted = Append(@, [period |-> c.period, copy |-> i + 1])]

\* Mutant: copies.append(candidates[0]), the old section's own dict.
PlanSlotNoCopy(acc, c, i) ==
  LET slot_start_age == i * c.period_length
      slot_end_age   == slot_start_age + c.period_length
      slot_end       == c.now - slot_start_age
      slot_start     == c.now - slot_end_age
      candidates     == Candidates(acc.heap, c.all_archives, slot_start, slot_end, c.exists)
  IN IF candidates # <<>>
     THEN [acc EXCEPT !.heap.lists[c.copies] =
                         Append(@, OldestCandidate(acc.heap, candidates))]
     ELSE [acc EXCEPT !.heap.lists[c.copies] = Append(@, None),
                      !.wanted = IF i + 1 = 1
                                 THEN Append(@, [period |-> c.period, copy |-> i + 1])
                                 ELSE @]

\* Lines 238-265, one iteration: slot i (0-based) of the period whose list is c.copies.
\* acc is [heap, section, wanted].
PlanSlot(acc, c, i) ==
  LET slot_start_age == i * c.period_length
      slot_end_age   == slot_start_age + c.period_length
      slot_end       == c.now - slot_start_age
      slot_start     == c.now - slot_end_age
      candidates     == Candidates(acc.heap, c.all_archives, slot_start, slot_end, c.exists)
  IN IF candidates # <<>>
     THEN \* copies.append(candidates[0].copy()): a new dict with the same content
          LET chosen == acc.heap.dicts[OldestCandidate(acc.heap, candidates)]
              id     == Len(acc.heap.dicts) + 1
          IN [acc EXCEPT !.heap.dicts = Append(@, chosen),
                         !.heap.lists[c.copies] = Append(@, id)]
     ELSE [acc EXCEPT !.heap.lists[c.copies] = Append(@, None),
                      !.wanted = IF i + 1 = 1
                                 THEN Append(@, [period |-> c.period, copy |-> i + 1])
                                 ELSE @]

\* Mutant: one slot too many.
RECURSIVE PlanSlotsOneMore(_, _, _, _)
PlanSlotsOneMore(acc, c, i, required_copies) ==
  IF i > required_copies THEN acc
  ELSE PlanSlotsOneMore(PlanSlot(acc, c, i), c, i + 1, required_copies)

\* range(0, period_length*required_copies, period_length) for period_length > 0
\* has required_copies elements, none when required_copies <= 0.
RECURSIVE PlanSlots(_, _, _, _)
PlanSlots(acc, c, i, required_copies) ==
  IF i >= required_copies THEN acc
  ELSE PlanSlots(PlanSlot(acc, c, i), c, i + 1, required_copies)

\* Lines 233-266: the periods in ascending order of length; each gets a new list.
RECURSIVE PlanPeriods(_, _, _, _, _, _, _)
PlanPeriods(acc, ordered, all_archives, exists, required_copies, ps, now) ==
  IF ordered = <<>> THEN acc
  ELSE LET period == Head(ordered)
           lid    == Len(acc.heap.lists) + 1
           c      == [period |-> period, period_length |-> PeriodLength(ps, period),
                      now |-> now, all_archives |-> all_archives, exists |-> exists,
                      copies |-> lid]
           start  == [acc EXCEPT !.heap.lists = Append(@, <<>>)]
           filled == PlanSlots(start, c, 0, required_copies)
           done   == [filled EXCEPT !.section =
                        [p \in DOMAIN filled.section \cup {period} |->
                           IF p = period THEN lid ELSE filled.section[p]]]
       IN PlanPeriods(done, Tail(ordered), all_archives, exists, required_copies, ps, now)

\* get_plan(tracker_section, destination, required_copies, periods, now): the result is
\* [heap, section, wanted]; `exists` is the set of names os.path.isfile accepts in the
\* destination.
get_plan(h, section, exists, required_copies, ps, now) ==
  LET all_archives == PoolPeriods(h, section, ps, <<>>)
  IN PlanPeriods([heap |-> h, section |-> <<>>, wanted |-> <<>>],
                 get_ordered_periods(ps), all_archives, exists, required_copies, ps, now)

----------------------------------------------------------------------------
(* add_new_file (lines 284-296). *)

\* Lines 293-294: while len(copies) < copy: copies.append(None)
RECURSIVE PadTo(_, _)
PadTo(copies, copy) == IF Len(copies) < copy THEN PadTo(Append(copies, None), copy) ELSE copies

\* Lines 290-296 for one element of wanted (copy >= 1, as get_plan produces it).
\* acc is [heap, section]. tracker_section.get(period, []) is the period's own list
\* object when the period is present, and that object is mutated in place.
AddWanted(acc, wanted_archive, filename, now) ==
  LET period  == wanted_archive.period
      copy    == wanted_archive.copy
      present == period \in DOMAIN acc.section
      lid     == IF present THEN acc.section[period] ELSE Len(acc.heap.lists) + 1
      lists0  == IF present THEN acc.heap.lists ELSE Append(acc.heap.lists, <<>>)
      id      == Len(acc.heap.dicts) + 1
      copies  == [PadTo(lists0[lid], copy) EXCEPT ![copy] = id]
  IN [heap    |-> [lists |-> [lists0 EXCEPT ![lid] = copies],
                   dicts |-> Append(acc.heap.dicts, [timestamp |-> now, file |-> filename])],
      section |-> [p \in DOMAIN acc.section \cup {period} |->
                     IF p = period THEN lid ELSE acc.section[p]]]

\* Mutant: the new archive registered in the first wanted slot only.
AddFirstWanted(acc, wanted_list, filename, now) ==
  IF wanted_list = <<>> THEN acc ELSE AddWanted(acc, Head(wanted_list), filename, now)

RECURSIVE AddAllWanted(_, _, _, _)
AddAllWanted(acc, wanted_list, filename, now) ==
  IF wanted_list = <<>> THEN acc
  ELSE AddAllWanted(AddWanted(acc, Head(wanted_list), filename, now),
                    Tail(wanted_list), filename, now)

\* add_new_file(tracker_section, wanted, archive_file_path, now); `filename` is
\* os.path.basename(archive_file_path). The result is [heap, section].
add_new_file(h, section, wanted_list, filename, now) ==
  AddAllWanted([heap |-> h, section |-> section], wanted_list, filename, now)

----------------------------------------------------------------------------
(* get_files_in_tracker_section, get_files_to_delete (lines 299-311). *)

get_files_in_tracker_section(h, section) ==
  {h.dicts[h.lists[section[p]][i]].file :
     <<p, i>> \in {pi \in UNION {{<<q, j>> : j \in 1..Len(h.lists[section[q]])} :
                                  q \in DOMAIN section} :
                     h.lists[section[pi[1]]][pi[2]] # None}}

\* Mutant: the new section's files are not taken out.
AllOldFiles(h, section, new_section) == get_files_in_tracker_section(h, section)

\* Mutant: no file is ever orphaned.
NoFilesToDelete(h, section, new_section) == {}

get_files_to_delete(h, section, new_section) ==
  get_files_in_tracker_section(h, section) \ get_files_in_tracker_section(h, new_section)

----------------------------------------------------------------------------
(* Python str and number conversions used by the tracker store. *)

Whitespace == {" ", "\t"}

Digits == <<"0","1","2","3","4","5","6","7","8","9">>

UpperLetters == <<"A","B","C","D","E","F","G","H","I","J","K","L","M",
                  "N","O","P","Q","R","S","T","U","V","W","X","Y","Z">>
LowerLetters == <<"a","b","c","d","e","f","g","h","i","j","k","l","m",
                  "n","o","p","q","r","s","t","u","v","w","x","y","z">>

\* s.startswith(prefix)
StartsWith(s, prefix) ==
  Len(s) >= Len(prefix) /\ SubSeq(s, 1, Len(prefix)) = prefix

\* s.strip()
RECURSIVE LStrip(_)
LStrip(s) == IF s # <<>> /\ Head(s) \in Whitespace THEN LStrip(Tail(s)) ELSE s

RECURSIVE RStrip(_)
RStrip(s) ==
  IF s # <<>> /\ s[Len(s)] \in Whitespace THEN RStrip(SubSeq(s, 1, Len(s) - 1)) ELSE s

Strip(s) == RStrip(LStrip(s))

\* s.split(sep) for a one-character sep: always at least one field.
RECURSIVE SplitFrom(_, _, _, _)
SplitFrom(s, sep, fields, field) ==
  IF s = <<>> THEN Append(fields, field)
  ELSE IF Head(s) = sep THEN SplitFrom(Tail(s), sep, Append(fields, field), <<>>)
  ELSE SplitFrom(Tail(s), sep, fields, Append(field, Head(s)))

Split(s, sep) == SplitFrom(s, sep, <<>>, <<>>)

\* s.lower()
LowerChar(ch) ==
  IF \E k \in 1..26 : UpperLetters[k] = ch
  THEN LowerLetters[CHOOSE k \in 1..26 : UpperLetters[k] = ch]
  ELSE ch

Lower(s) == [k \in 1..Len(s) |-> LowerChar(s[k])]

IsDigit(ch) == \E k \in 1..10 : Digits[k] = ch

DigitValue(ch) == (CHOOSE k \in 1..10 : Digits[k] = ch) - 1

\* '{}'.format(n) for an int n
RECURSIVE NatToStr(_)
NatToStr(n) ==
  IF n < 10 THEN <<Digits[n + 1]>> ELSE Append(NatToStr(n \div 10), Digits[(n % 10) + 1])

IntToStr(n) == IF n < 0 THEN <<"-">> \o NatToStr(-n) ELSE NatToStr(n)

\* The value of a string of digits in which single underscores may separate digits.
RECURSIVE DigitsValue(_, _)
DigitsValue(s, value) ==
  IF s = <<>> THEN value
  ELSE IF Head(s) = "_" THEN DigitsValue(Tail(s), value)
  ELSE DigitsValue(Tail(s), 10 * value + DigitValue(Head(s)))

IsDigitString(s) ==
  /\ s # <<>>
  /\ \A k \in 1..Len(s) : IsDigit(s[k]) \/ s[k] = "_"
  /\ s[1] # "_" /\ s[Len(s)] # "_"
  /\ \A k \in 1..(Len(s) - 1) : ~(s[k] = "_" /\ s[k + 1] = "_")

\* int(s): surrounding whitespace, one optional sign, decimal digits.
\* [ok |-> FALSE] is ValueError.
ParseInt(s) ==
  LET t      == Strip(s)
      signed == t # <<>> /\ Head(t) \in {"+", "-"}
      body   == IF signed THEN Tail(t) ELSE t
  IN IF IsDigitString(body)
     THEN [ok |-> TRUE,
           value |-> IF signed /\ Head(t) = "-" THEN 0 - DigitsValue(body, 0)
                     ELSE DigitsValue(body, 0)]
     ELSE [ok |-> FALSE, value |-> 0]

\* '{}'.format(v) for a non-negative float v with one fractional digit, v in tenths.
FloatToStr(tenths) ==
  NatToStr(tenths \div 10) \o <<".">> \o <<Digits[(tenths % 10) + 1]>>

\* float(s) for the spellings "D", "D." and "D.d" (D a string of digits, d one digit),
\* in tenths; every other spelling of the model's inputs is one float() rejects
\* with ValueError ([ok |-> FALSE]).
ParseFloat(s) ==
  LET t     == Strip(s)
      parts == Split(t, ".")
  IN IF Len(parts) = 1 /\ IsDigitString(parts[1]) /\ \A k \in 1..Len(t) : t[k] # "_"
     THEN [ok |-> TRUE, value |-> 10 * DigitsValue(parts[1], 0)]
     ELSE IF /\ Len(parts) = 2
             /\ IsDigitString(parts[1])
             /\ \A k \in 1..Len(t) : t[k] # "_"
             /\ Len(parts[2]) <= 1
             /\ \A k \in 1..Len(parts[2]) : IsDigit(parts[2][k])
     THEN [ok |-> TRUE,
           value |-> 10 * DigitsValue(parts[1], 0) + DigitsValue(parts[2], 0)]
     ELSE [ok |-> FALSE, value |-> 0]

----------------------------------------------------------------------------
(* The tracker as read_tracker returns it and write_tracker takes it: entries *)
(* [path, section] in insertion order, a section being a function from period *)
(* names to lists of slots, a slot being <<>> (None) or <<[timestamp, file]>>. *)

DictKeys(entries) == {entries[k].path : k \in 1..Len(entries)}

DictHas(entries, path) == path \in DictKeys(entries)

\* tracker[path]
DictGet(entries, path) ==
  entries[CHOOSE k \in 1..Len(entries) : entries[k].path = path].section

\* tracker[path] = section: an existing key keeps its position.
DictPut(entries, path, section) ==
  IF DictHas(entries, path)
  THEN [k \in 1..Len(entries) |->
          IF entries[k].path = path THEN [path |-> path, section |-> section]
          ELSE entries[k]]
  ELSE Append(entries, [path |-> path, section |-> section])

\* A dict without its insertion order, as Python's == compares dicts.
AsDict(entries) == [path \in DictKeys(entries) |-> DictGet(entries, path)]

----------------------------------------------------------------------------
(* read_tracker (lines 131-215). *)

VersionPrefix == <<">","v","e","r","s","i","o","n","=">>

\* Mutant: a version exactly one behind is accepted.
VersionMoreThanOneBehind(version, expected_version) ==
  version > expected_version \/ expected_version - version > 10

\* Line 170: version > expected_version or expected_version - version >= 1.0
VersionIncompatible(version, expected_version) ==
  version > expected_version \/ expected_version - version >= 10

ReadStart ==
  [status |-> "ok", error |-> "", version |-> <<>>, tracker |-> <<>>,
   section |-> <<>>, path |-> <<>>]

\* Mutant: fail() that logs the message and returns.
ReadFailReturns(rs, error) == rs

\* fail(message), or an exception nothing catches: read_tracker does not return.
ReadFail(rs, error) == [rs EXCEPT !.status = "fail", !.error = error]

RECURSIVE PadSlots(_, _)
PadSlots(copies, copy) ==
  IF Len(copies) < copy THEN PadSlots(Append(copies, <<>>), copy) ELSE copies

\* Lines 185-211: a data line.
ReadDataLine(rs, line, ps) ==
  LET fields == Split(line, "\t")
  IN IF Len(fields) # 4 THEN ReadFail(rs, "fields")
     ELSE
       LET period    == Lower(fields[1])
           timestamp == ParseInt(fields[3])
           copy      == ParseInt(fields[2])
           filename  == fields[4]
       IN IF period \notin PeriodKeys(ps) THEN ReadFail(rs, "period")
          ELSE IF ~timestamp.ok THEN ReadFail(rs, "timestamp")
          ELSE IF ~copy.ok THEN ReadFail(rs, "copy")
          ELSE IF copy.value > 2000 THEN ReadFail(rs, "copy too large")
          ELSE
            LET old    == IF period \in DOMAIN rs.section THEN rs.section[period] ELSE <<>>
                copies == PadSlots(old, copy.value)
                \* copies[copy-1]: a negative index counts from the end of the list
                at     == IF copy.value - 1 >= 0 THEN copy.value
                          ELSE Len(copies) + copy.value
                record == <<[timestamp |-> timestamp.value, file |-> filename]>>
            IN IF at < 1 THEN ReadFail(rs, "IndexError")
               ELSE [rs EXCEPT !.section =
                       [p \in DOMAIN rs.section \cup {period} |->
                          IF p = period THEN [copies EXCEPT ![at] = record]
                          ELSE rs.section[p]]]

\* Lines 158-211: one line of the file (without its line terminator).
ReadLine(rs, line_raw, ps, expected_version) ==
  LET header         == StartsWith(line_raw, <<">">>)
      section_header == ~StartsWith(line_raw, <<"\t">>)
      line           == Strip(line_raw)
  IN IF rs.status # "ok" THEN rs
     ELSE IF line = <<>> THEN rs
     ELSE IF header
     THEN IF StartsWith(line, VersionPrefix)
          THEN LET version == ParseFloat(SubSeq(line, 10, Len(line)))
               IN IF ~version.ok THEN ReadFail(rs, "ValueError")
                  ELSE IF VersionIncompatible(version.value, expected_version)
                       THEN ReadFail([rs EXCEPT !.version = <<version.value>>], "version")
                       ELSE [rs EXCEPT !.version = <<version.value>>]
          ELSE rs
     ELSE IF section_header
     THEN IF rs.version = <<>> \/ rs.version = <<0>> THEN ReadFail(rs, "no version")
          ELSE [rs EXCEPT
                  !.tracker = IF rs.section # <<>> /\ rs.path # <<>>
                              THEN DictPut(@, rs.path, rs.section) ELSE @,
                  !.section = <<>>,
                  !.path = line]
     ELSE ReadDataLine(rs, line, ps)

RECURSIVE ReadLines(_, _, _, _)
ReadLines(rs, lines, ps, expected_version) ==
  IF lines = <<>> THEN rs
  ELSE ReadLines(ReadLine(rs, Head(lines), ps, expected_version), Tail(lines),
                 ps, expected_version)

\* read_tracker(tracker_file, periods, expected_version): [status, error, tracker];
\* status "fail" when it does not return.
read_tracker(lines, ps, expected_version) ==
  LET rs == ReadLines(ReadStart, lines, ps, expected_version)
  IN IF rs.status # "ok" THEN [status |-> "fail", error |-> rs.error, tracker |-> <<>>]
     ELSE [status |-> "ok", error |-> "",
           tracker |-> IF rs.section # <<>> /\ rs.path # <<>>
                       THEN DictPut(rs.tracker, rs.path, rs.section) ELSE rs.tracker]

----------------------------------------------------------------------------
(* write_tracker (lines 336-349). *)

\* Mutant: the copy number written from 0.
DataLineFromZero(period, copy, archive) ==
  <<"\t">> \o period \o <<"\t">> \o IntToStr(copy - 1) \o <<"\t">>
    \o IntToStr(archive.timestamp) \o <<"\t">> \o archive.file

\* Line 347: '\t{}\t{}\t{timestamp}\t{file}\n'
DataLine(period, copy, archive) ==
  <<"\t">> \o period \o <<"\t">> \o IntToStr(copy) \o <<"\t">>
    \o IntToStr(archive.timestamp) \o <<"\t">> \o archive.file

\* Mutant: the copy number counted over the populated slots only.
CopiesLinesDense(period, copies, i) ==
  LET populated == SelectSeq(copies, LAMBDA slot : slot # <<>>)
  IN [k \in 1..Len(populated) |-> DataLine(period, k, populated[k][1])]

\* Lines 345-347: the lines of one period's list, from slot i on.
RECURSIVE CopiesLines(_, _, _)
CopiesLines(period, copies, i) ==
  IF i > Len(copies) THEN <<>>
  ELSE (IF copies[i] # <<>> THEN <<DataLine(period, i, copies[i][1])>> ELSE <<>>)
         \o CopiesLines(period, copies, i + 1)

\* Lines 343-347
RECURSIVE SectionLines(_, _)
SectionLines(section, ordered_periods) ==
  IF ordered_periods = <<>> THEN <<>>
  ELSE LET period == Head(ordered_periods)
           copies == IF period \in DOMAIN section THEN section[period] ELSE <<>>
       IN CopiesLines(period, copies, 1) \o SectionLines(section, Tail(ordered_periods))

\* Lines 341-347
RECURSIVE TrackerLines(_, _)
TrackerLines(entries, ordered_periods) ==
  IF entries = <<>> THEN <<>>
  ELSE <<Head(entries).path>> \o SectionLines(Head(entries).section, ordered_periods)
         \o TrackerLines(Tail(entries), ordered_periods)

\* write_tracker(tracker, tracker_path, periods, version): the lines written.
write_tracker(entries, ps, version) ==
  <<VersionPrefix \o FloatToStr(version)>> \o TrackerLines(entries, get_ordered_periods(ps))

----------------------------------------------------------------------------
(* get_archive_path (lines 270-281), for ext=None. *)

\* os.path.splitext: the extension starts at the last dot that follows a
\* character other than a dot.
SplitExtAt(filename) ==
  LET dots == {k \in 1..Len(filename) :
                 /\ filename[k] = "."
                 /\ \E j \in 1..(k - 1) : filename[j] # "."}
  IN IF dots = {} THEN Len(filename) + 1
     ELSE CHOOSE k \in dots : \A j \in dots : j <= k

\* n as decimal digits, zero-padded to two places (%m, %d, %H, %M, %S).
TwoDigits(n) == <<Digits[(n \div 10) + 1], Digits[(n % 10) + 1]>>

\* datetime.fromtimestamp(now).strftime('%Y-%m-%d-%H%M%S') for now >= 0, the local
\* time zone being UTC (proleptic Gregorian calendar, years of four digits).
TimeStr(now) ==
  LET days == now \div 86400
      secs == now % 86400
      z    == days + 719468
      era  == z \div 146097
      doe  == z - era * 146097
      yoe  == (doe - doe \div 1460 + doe \div 36524 - doe \div 146096) \div 365
      doy  == doe - (365 * yoe + yoe \div 4 - yoe \div 100)
      mp   == (5 * doy + 2) \div 153
      d    == doy - (153 * mp + 2) \div 5 + 1
      m    == IF mp < 10 THEN mp + 3 ELSE mp - 9
      y    == yoe + era * 400 + (IF m <= 2 THEN 1 ELSE 0)
  IN NatToStr(y) \o <<"-">> \o TwoDigits(m) \o <<"-">> \o TwoDigits(d) \o <<"-">>
       \o TwoDigits(secs \div 3600) \o TwoDigits((secs % 3600) \div 60)
       \o TwoDigits(secs % 60)

\* The basename of get_archive_path(target_path, destination, None, now).
get_archive_path(filename, now) ==
  LET k == SplitExtAt(filename)
  IN SubSeq(filename, 1, k - 1) \o <<"-">> \o TimeStr(now)
       \o SubSeq(filename, k, Len(filename))

----------------------------------------------------------------------------
(* Moving tracker values into the heap, as read_tracker builds them: every list *)
(* and every archive dict is an object of its own.                             *)

RECURSIVE StoreSlots(_, _, _)
StoreSlots(h, lid, slots) ==
  IF slots = <<>> THEN h
  ELSE IF Head(slots) = <<>>
       THEN StoreSlots([h EXCEPT !.lists[lid] = Append(@, None)], lid, Tail(slots))
       ELSE StoreSlots([h EXCEPT !.dicts = Append(@, Head(slots)[1]),
                                 !.lists[lid] = Append(@, Len(h.dicts) + 1)],
                       lid, Tail(slots))

RECURSIVE StoreSection(_, _, _)
StoreSection(acc, value, names) ==
  IF names = <<>> THEN acc
  ELSE IF Head(names) \notin DOMAIN value THEN StoreSection(acc, value, Tail(names))
  ELSE LET lid == Len(acc.heap.lists) + 1
           h   == StoreSlots([acc.heap EXCEPT !.lists = Append(@, <<>>)], lid,
                             value[Head(names)])
       IN StoreSection([heap    |-> h,
                        section |-> [p \in DOMAIN acc.section \cup {Head(names)} |->
                                       IF p = Head(names) THEN lid ELSE acc.section[p]]],
                       value, Tail(names))

RECURSIVE StoreTracker(_, _, _)
StoreTracker(acc, entries, names) ==
  IF entries = <<>> THEN acc
  ELSE LET one == StoreSection([heap |-> acc.heap, section |-> <<>>],
                               Head(entries).section, names)
       IN StoreTracker([heap    |-> one.heap,
                        tracker |-> Append(acc.tracker,
                                           [path |-> Head(entries).path,
                                            section |-> one.section])],
                       Tail(entries), names)

\* The tracker in the heap, by content.
TrackerValue(h, entries) ==
  [k \in 1..Len(entries) |->
     [path |-> entries[k].path, section |-> SectionValue(h, entries[k].section)]]

PeriodNames(ps) == [k \in 1..Len(ps) |-> ps[k].name]

----------------------------------------------------------------------------
(* Bounds and input sets. *)

MaxCopies   == 2    \* --copies ranges over 0..MaxCopies
MaxArchives == 2    \* archives referenced by a section drawn as input
MaxRuns     == 2    \* invocations in one behaviour

FileA == <<"a">>
FileB == <<"b">>
TargetPlain == <<"f",".","x">>
GroupG == <<"g">>

\* Process start times, and the values given to --now.
ClockValues == {1000000, 1003600}

\* Timestamps of the archives drawn as input. For now = 1000000 their ages are 0,
\* 3600 and 86400: the youngest second of hourly slot 1, of hourly slot 2 and of
\* daily slot 2. For now = 1003600 the ages are 3600, 7200 and 90000.
InputTimestamps == {1000000, 996400, 913600}
InputFiles      == {FileA, FileB}
\* The archive of 1000000 is file a and the one of 996400 file b; the oldest
\* timestamp comes with either file.
InputArchives   ==
  {archive \in [timestamp : InputTimestamps, file : InputFiles] :
     \/ archive.timestamp = 913600
     \/ (archive.timestamp = 1000000) <=> (archive.file = FileA)}
InputPeriods    == {hourly, daily}
InputSlots      == {1, 2}

\* The policy of the worked examples: periods {hourly:3600, daily:86400}.
TwoPeriods == <<[name |-> hourly, length |-> 3600], [name |-> daily, length |-> 86400]>>

\* The sections read_tracker can return over the input archives: each list is as long
\* as its highest populated slot, and a period without a populated slot is absent.
SectionOf(placed) ==
  LET used == {pos[1] : pos \in DOMAIN placed}
      top(p) == CHOOSE i \in InputSlots :
                  /\ <<p, i>> \in DOMAIN placed
                  /\ \A j \in InputSlots : <<p, j>> \in DOMAIN placed => j <= i
  IN [p \in used |->
        [i \in 1..top(p) |-> IF <<p, i>> \in DOMAIN placed THEN <<placed[<<p, i>>]>> ELSE <<>>]]

InputSections ==
  {SectionOf(placed) :
     placed \in UNION {[positions -> InputArchives] :
                         positions \in {ps \in SUBSET (InputPeriods \X InputSlots) :
                                          Cardinality(ps) <= MaxArchives}}}

NoFile == [present |-> FALSE, lines |-> <<>>]

NoArgs ==
  [file |-> <<>>, group_name |-> <<>>, new |-> FALSE, copies |-> 0, now |-> 0,
   min_size |-> 0]

\* A second invocation that has not started.
NoOther ==
  [pc |-> "idle", args |-> NoArgs, heap |-> EmptyHeap, tracker |-> <<>>,
   tracker_section |-> <<>>, new_tracker_section |-> <<>>, wanted |-> <<>>,
   files_to_delete |-> {}, loaded |-> <<>>]

NoRace == [first |-> "none", overlap |-> FALSE]

\* No run has completed, no archive was created and no tracker file was loaded.
NoHistory == [created |-> {}, last |-> [args |-> NoArgs, NOW |-> 0], file |-> NoFile]

\* The positions of an invocation that has read the tracker file and has not yet
\* written it.
OverlapPcs == {"plan", "archive", "delete", "persist"}

NoStore ==
  [input |-> <<>>, version |-> 0, expected |-> 0, text |-> <<>>, result |-> <<>>,
   stage |-> "none"]

\* group_name = args.group_name or os.path.basename(args.file)   (line 79)
GroupName(a) == IF a.group_name # <<>> THEN a.group_name ELSE a.file

----------------------------------------------------------------------------
(* main (lines 61-128), one action per step. *)

\* The sizes of the target file (-1: there is no such file) and the values of
\* --min-size (0: not given).
TargetSizes == {-1, 5}
MinSizes    == {0, 6}

\* Line 70: not os.path.isfile(args.file)
TargetNotFound(size) == size < 0

\* Mutant: --min-size is not looked at.
TargetNeverTooSmall(size, min_size) == FALSE

\* Line 75: args.min_size and os.path.getsize(args.file) < args.min_size
TargetTooSmall(size, min_size) == min_size # 0 /\ size < min_size

\* Lines 61-81. The target lives in the destination directory (the default
\* destination); a size below 0 stands for a target that does not exist.
Begin ==
  /\ pc \in {"idle", "done", "aborted", "crashed"}
  /\ runs < MaxRuns
  /\ \E clock \in ClockValues, now \in ClockValues, mode \in {"plain", "groupA", "groupB"},
        new \in BOOLEAN, copies \in 0..MaxCopies,
        size \in TargetSizes, min_size \in MinSizes :
       LET file == CASE mode = "plain" -> TargetPlain
                     [] mode = "groupA" -> FileA
                     [] mode = "groupB" -> FileB
       IN /\ clock >= NOW
          /\ now \in {clock, 1000000}
          /\ NOW' = clock
          /\ periods' = PERIODS(clock)
          /\ args' = [file |-> file,
                      group_name |-> IF mode = "plain" THEN <<>> ELSE GroupG,
                      new |-> new, copies |-> copies, now |-> now,
                      min_size |-> min_size]
          /\ target_size' = size
          /\ disk' = IF size < 0 THEN disk \ {file} ELSE disk \cup {file}
          /\ pc' = IF TargetNotFound(size) THEN "aborted"               \* line 71
                   ELSE IF TargetTooSmall(size, min_size) THEN "aborted"  \* line 76
                   ELSE "load"
  /\ runs' = runs + 1
  /\ heap' = EmptyHeap
  /\ tracker' = <<>> /\ tracker_section' = <<>> /\ new_tracker_section' = <<>>
  /\ wanted' = <<>> /\ files_to_delete' = {} /\ loaded' = <<>> /\ planned' = <<>>
  /\ plan_disk' = {}
  /\ history' = NoHistory
  /\ UNCHANGED <<tracker_file, store, other, race>>

\* Mutant: every group is taken as a new one.
LoadAsNew ==
  /\ pc = "load"
  /\ pc' = "plan"
  /\ heap' = EmptyHeap
  /\ tracker' = <<[path |-> GroupName(args), section |-> <<>>]>>
  /\ tracker_section' = <<>>
  /\ loaded' = <<>>
  /\ UNCHANGED <<NOW, args, periods, disk, tracker_file, new_tracker_section, wanted,
                 files_to_delete, planned, plan_disk, store, runs, target_size, other,
                 race, history>>

\* Lines 95-105: the section of the group in the tracker `found`, whose objects
\* are in `stored_heap`: [pc, heap, tracker, tracker_section], pc "aborted" after
\* fail().
LoadSection(a, group_name, found, stored_heap) ==
  IF DictHas(found, group_name)
  THEN [pc |-> "plan", heap |-> stored_heap, tracker |-> found,
        tracker_section |-> DictGet(found, group_name)]
  ELSE IF a.new
  THEN [pc |-> "plan", heap |-> stored_heap,
        tracker |-> DictPut(found, group_name, <<>>),
        tracker_section |-> <<>>]
  ELSE [pc |-> "aborted", heap |-> EmptyHeap, tracker |-> <<>>,
        tracker_section |-> <<>>]                                      \* line 102

\* Lines 86 and 95-105: the tracker read_tracker returned becomes objects.
LoadStored(a, stored) == LoadSection(a, GroupName(a), stored.tracker, stored.heap)

\* Lines 84-105 with the result `read` of read_tracker on the tracker file.
LoadRead(a, file, ps, read) ==
  IF file.present
  THEN IF read.status # "ok"
       THEN [pc |-> "aborted", heap |-> EmptyHeap, tracker |-> <<>>,
             tracker_section |-> <<>>]
       ELSE LoadStored(a, StoreTracker([heap |-> EmptyHeap, tracker |-> <<>>],
                                       read.tracker, PeriodNames(ps)))
  ELSE IF a.new
  THEN [pc |-> "plan", heap |-> EmptyHeap,
        tracker |-> <<[path |-> GroupName(a), section |-> <<>>]>>,
        tracker_section |-> <<>>]                                      \* lines 88-89
  ELSE [pc |-> "aborted", heap |-> EmptyHeap, tracker |-> <<>>,
        tracker_section |-> <<>>]                                      \* line 91

\* Lines 83-105 for the command line a and the tracker file as it is.
LoadResult(a, file, ps) == LoadRead(a, file, ps, read_tracker(file.lines, ps, VERSION))

\* Lines 83-105: the invocation takes what it loaded.
LoadTo(result) ==
  /\ pc' = result.pc
  /\ heap' = result.heap
  /\ tracker' = result.tracker
  /\ tracker_section' = result.tracker_section
  /\ loaded' = SectionValue(result.heap, result.tracker_section)

\* Lines 83-105
Load ==
  /\ pc = "load"
  /\ LoadTo(LoadResult(args, tracker_file, periods))
  /\ history' = [history EXCEPT !.file = tracker_file]
  /\ UNCHANGED <<NOW, args, periods, disk, tracker_file, new_tracker_section, wanted,
                 files_to_delete, planned, plan_disk, store, runs, target_size, other,
                 race>>

\* Lines 108-109
Plan ==
  /\ pc = "plan"
  /\ LET plan == get_plan(heap, tracker_section, disk, args.copies, periods, args.now)
     IN /\ heap' = plan.heap
        /\ new_tracker_section' = plan.section
        /\ wanted' = plan.wanted
        /\ planned' = SectionValue(plan.heap, plan.section)
  /\ plan_disk' = disk
  /\ pc' = "archive"
  /\ UNCHANGED <<NOW, args, periods, disk, tracker_file, tracker, tracker_section,
                 files_to_delete, loaded, store, runs,
                 target_size, other, race, history>>

\* The basename of archive_file_path (lines 114-117, 288)
ArchiveFilename(a) ==
  IF a.group_name # <<>> THEN a.file ELSE get_archive_path(a.file, a.now)

\* Mutant: the target is copied whether or not an archive is wanted.
ArchiveAlways ==
  /\ pc = "archive"
  /\ LET filename == ArchiveFilename(args)
     IN disk' = IF args.group_name # <<>> THEN disk ELSE disk \cup {filename}
  /\ IF wanted # <<>>
     THEN LET added == add_new_file(heap, new_tracker_section, wanted,
                                    ArchiveFilename(args), args.now)
          IN heap' = added.heap /\ new_tracker_section' = added.section
     ELSE UNCHANGED <<heap, new_tracker_section>>
  /\ pc' = "delete"
  /\ UNCHANGED <<NOW, args, periods, tracker_file, tracker, tracker_section, wanted,
                 files_to_delete, loaded, planned, plan_disk, store, runs,
                 target_size, other, race, history>>

\* Lines 113-120
Archive ==
  /\ pc = "archive"
  /\ IF wanted # <<>>
     THEN LET filename == ArchiveFilename(args)
              added    == add_new_file(heap, new_tracker_section, wanted, filename, args.now)
          IN /\ disk' = IF args.group_name # <<>> THEN disk ELSE disk \cup {filename}
             /\ heap' = added.heap
             /\ new_tracker_section' = added.section
             /\ history' = [history EXCEPT !.created = @ \cup {filename}]
     ELSE UNCHANGED <<disk, heap, new_tracker_section, history>>
  /\ pc' = "delete"
  /\ UNCHANGED <<NOW, args, periods, tracker_file, tracker, tracker_section, wanted,
                 files_to_delete, loaded, planned, plan_disk, store, runs,
                 target_size, other, race>>

\* Mutant: a file that is not there ends the run, as a file that cannot be removed.
DeleteFailsOnMissing ==
  /\ pc = "delete"
  /\ files_to_delete' = get_files_to_delete(heap, tracker_section, new_tracker_section)
  /\ IF files_to_delete' \subseteq disk
     THEN disk' = disk \ files_to_delete' /\ pc' = "persist"
     ELSE disk' = disk /\ pc' = "aborted"
  /\ UNCHANGED <<NOW, args, periods, tracker_file, heap, tracker, tracker_section,
                 new_tracker_section, wanted, loaded, planned, plan_disk, store, runs,
                 target_size, other, race, history>>

\* Lines 122-124; delete_files (lines 314-326) removes the files that exist and
\* skips the others. os.remove may raise OSError on a file that exists: fail()
\* then ends the run, the files the loop took before it (a set: in any order)
\* being removed.
Delete ==
  /\ pc = "delete"
  /\ files_to_delete' = get_files_to_delete(heap, tracker_section, new_tracker_section)
  /\ \/ /\ disk' = disk \ files_to_delete'
        /\ pc' = "persist"
     \/ \E filename \in files_to_delete' \cap disk :
          \E removed \in SUBSET ((files_to_delete' \cap disk) \ {filename}) :
            /\ disk' = disk \ removed
            /\ pc' = "aborted"                                         \* line 324
  /\ UNCHANGED <<NOW, args, periods, tracker_file, heap, tracker, tracker_section,
                 new_tracker_section, wanted, loaded, planned, plan_disk, store, runs,
                 target_size, other, race, history>>

\* The characters of a text file.
RECURSIVE FileChars(_)
FileChars(lines) ==
  IF lines = <<>> THEN <<>> ELSE Head(lines) \o <<"\n">> \o FileChars(Tail(lines))

\* The lines of a text file that ends in a line terminator.
FileLines(chars) ==
  LET ends     == {k \in 1..Len(chars) : chars[k] = "\n"}
      end(i)   == CHOOSE k \in ends : Cardinality({e \in ends : e <= k}) = i
      start(i) == IF i = 1 THEN 1 ELSE end(i - 1) + 1
  IN [i \in 1..Cardinality(ends) |-> SubSeq(chars, start(i), end(i) - 1)]

\* The file after `text` is written at offset 0 by a process that opened the file
\* before `current` came into it: what `text` does not cover stays.
WriteOver(current, text) ==
  IF current = <<>> THEN text
  ELSE LET old == FileChars(current)
           new == FileChars(text)
       IN FileLines(new \o SubSeq(old, Len(new) + 1, Len(old)))

\* Mutant: the tracker file is opened for writing before the files are deleted.
PersistOpenBeforeDelete ==
  /\ pc = "delete"
  /\ tracker' = DictPut(tracker, GroupName(args), new_tracker_section)
  /\ tracker_file' = [present |-> TRUE, lines |-> <<>>]
  /\ pc' = "delete"
  /\ UNCHANGED <<NOW, args, periods, disk, heap, tracker_section, new_tracker_section,
                 wanted, files_to_delete, loaded, planned, plan_disk, store, runs,
                 target_size, other, race, history>>

\* Mutant: the tracker is read again when the file is opened for writing, and
\* only the section of this invocation is replaced in it.
PersistOpenReloaded ==
  /\ pc = "persist"
  /\ LET read   == read_tracker(tracker_file.lines, periods, VERSION)
         stored == StoreTracker([heap |-> heap, tracker |-> <<>>],
                                IF read.status = "ok" THEN read.tracker ELSE <<>>,
                                PeriodNames(periods))
     IN /\ heap' = stored.heap
        /\ tracker' = DictPut(stored.tracker, GroupName(args), new_tracker_section)
  /\ tracker_file' = [present |-> TRUE, lines |-> <<>>]
  /\ pc' = "write"
  /\ UNCHANGED <<NOW, args, periods, disk, tracker_section, new_tracker_section,
                 wanted, files_to_delete, loaded, planned, plan_disk, store, runs,
                 target_size, other, race, history>>

\* Line 127 and line 339: open(tracker_path, 'w') truncates the tracker file; an
\* IOError ends the run in fail() (line 349).
PersistOpen ==
  /\ pc = "persist"
  /\ tracker' = DictPut(tracker, GroupName(args), new_tracker_section)
  /\ \/ /\ tracker_file' = [present |-> TRUE, lines |-> <<>>]
        /\ pc' = "write"
     \/ /\ UNCHANGED tracker_file
        /\ pc' = "aborted"
  /\ UNCHANGED <<NOW, args, periods, disk, heap, tracker_section, new_tracker_section,
                 wanted, files_to_delete, loaded, planned, plan_disk, store, runs,
                 target_size, other, race, history>>

\* Writes the entry of the group of the invocation and no other.
PersistWriteOwnSection ==
  /\ pc = "write"
  /\ tracker_file' =
       LET OwnEntry(entry) == entry.path = GroupName(args)
       IN [present |-> TRUE,
           lines |-> WriteOver(tracker_file.lines,
                               write_tracker(TrackerValue(heap, SelectSeq(tracker, OwnEntry)),
                                             periods, VERSION))]
  /\ race' = IF race.first = "none"
             THEN [first |-> "main", overlap |-> other.pc \in OverlapPcs]
             ELSE race
  /\ pc' = "done"
  /\ history' = [history EXCEPT !.last = [args |-> args, NOW |-> NOW]]
  /\ UNCHANGED <<NOW, args, periods, disk, heap, tracker, tracker_section,
                 new_tracker_section, wanted, files_to_delete, loaded, planned, plan_disk,
                 store, runs, target_size, other>>

\* Lines 340-347: the lines written, which reach the file when it is closed.
PersistWrite ==
  /\ pc = "write"
  /\ tracker_file' = [present |-> TRUE,
                      lines |-> WriteOver(tracker_file.lines,
                                          write_tracker(TrackerValue(heap, tracker),
                                                        periods, VERSION))]
  /\ race' = IF race.first = "none"
             THEN [first |-> "main", overlap |-> other.pc \in OverlapPcs]
             ELSE race
  /\ pc' = "done"
  /\ history' = [history EXCEPT !.last = [args |-> args, NOW |-> NOW]]
  /\ UNCHANGED <<NOW, args, periods, disk, heap, tracker, tracker_section,
                 new_tracker_section, wanted, files_to_delete, loaded, planned, plan_disk,
                 store, runs, target_size, other>>

\* Lines 126-128
Persist == PersistOpen \/ PersistWrite

\* The process is killed between two steps.
Crash ==
  /\ pc \in {"load", "plan", "archive", "delete", "persist", "write"}
  /\ pc' = "crashed"
  /\ UNCHANGED <<NOW, args, periods, disk, tracker_file, heap, tracker, tracker_section,
                 new_tracker_section, wanted, files_to_delete, loaded, planned, plan_disk,
                 store, runs, target_size, other, race, history>>

----------------------------------------------------------------------------
(* A second invocation of main (lines 83-128) on the same destination and      *)
(* tracker file, started at the same time: the same steps on its own objects.  *)

\* Lines 83-105: the second invocation takes what it loaded.
OtherLoadTo(result) ==
  other' = [other EXCEPT !.pc = result.pc,
                         !.heap = result.heap,
                         !.tracker = result.tracker,
                         !.tracker_section = result.tracker_section,
                         !.loaded = SectionValue(result.heap, result.tracker_section)]

\* Lines 83-105
OtherLoad ==
  /\ other.pc = "load"
  /\ OtherLoadTo(LoadResult(other.args, tracker_file, periods))
  /\ UNCHANGED <<pc, NOW, args, periods, disk, tracker_file, heap, tracker, tracker_section,
                 new_tracker_section, wanted, files_to_delete, loaded, planned, plan_disk,
                 store, runs, target_size, race, history>>

\* Lines 108-109
OtherPlan ==
  /\ other.pc = "plan"
  /\ LET plan == get_plan(other.heap, other.tracker_section, disk, other.args.copies,
                          periods, other.args.now)
     IN other' = [other EXCEPT !.pc = "archive",
                               !.heap = plan.heap,
                               !.new_tracker_section = plan.section,
                               !.wanted = plan.wanted]
  /\ UNCHANGED <<pc, NOW, args, periods, disk, tracker_file, heap, tracker, tracker_section,
                 new_tracker_section, wanted, files_to_delete, loaded, planned, plan_disk,
                 store, runs, target_size, race, history>>

\* Lines 113-120
OtherArchive ==
  /\ other.pc = "archive"
  /\ IF other.wanted # <<>>
     THEN LET filename == ArchiveFilename(other.args)
              added    == add_new_file(other.heap, other.new_tracker_section, other.wanted,
                                       filename, other.args.now)
          IN /\ disk' = IF other.args.group_name # <<>> THEN disk
                        ELSE disk \cup {filename}
             /\ other' = [other EXCEPT !.pc = "delete",
                                       !.heap = added.heap,
                                       !.new_tracker_section = added.section]
     ELSE /\ disk' = disk
          /\ other' = [other EXCEPT !.pc = "delete"]
  /\ UNCHANGED <<pc, NOW, args, periods, tracker_file, heap, tracker, tracker_section,
                 new_tracker_section, wanted, files_to_delete, loaded, planned, plan_disk,
                 store, runs, target_size, race, history>>

\* Lines 122-124 and delete_files (lines 314-326)
OtherDelete ==
  /\ other.pc = "delete"
  /\ LET to_delete == get_files_to_delete(other.heap, other.tracker_section,
                                          other.new_tracker_section)
     IN \/ /\ disk' = disk \ to_delete
           /\ other' = [other EXCEPT !.pc = "persist", !.files_to_delete = to_delete]
        \/ \E filename \in to_delete \cap disk :
             \E removed \in SUBSET ((to_delete \cap disk) \ {filename}) :
               /\ disk' = disk \ removed
               /\ other' = [other EXCEPT !.pc = "aborted", !.files_to_delete = to_delete]
  /\ UNCHANGED <<pc, NOW, args, periods, tracker_file, heap, tracker, tracker_section,
                 new_tracker_section, wanted, files_to_delete, loaded, planned, plan_disk,
                 store, runs, target_size, race, history>>

\* Line 127 and line 339
OtherPersistOpen ==
  /\ other.pc = "persist"
  /\ LET put == DictPut(other.tracker, GroupName(other.args), other.new_tracker_section)
     IN \/ /\ tracker_file' = [present |-> TRUE, lines |-> <<>>]
           /\ other' = [other EXCEPT !.pc = "write", !.tracker = put]
        \/ /\ UNCHANGED tracker_file
           /\ other' = [other EXCEPT !.pc = "aborted", !.tracker = put]
  /\ UNCHANGED <<pc, NOW, args, periods, disk, heap, tracker, tracker_section,
                 new_tracker_section, wanted, files_to_delete, loaded, planned, plan_disk,
                 store, runs, target_size, race, history>>

\* Lines 340-347
OtherPersistWrite ==
  /\ other.pc = "write"
  /\ tracker_file' = [present |-> TRUE,
                      lines |-> WriteOver(tracker_file.lines,
                                          write_tracker(TrackerValue(other.heap, other.tracker),
                                                        periods, VERSION))]
  /\ race' = IF race.first = "none"
             THEN [first |-> "other", overlap |-> pc \in OverlapPcs]
             ELSE race
  /\ other' = [other EXCEPT !.pc = "done"]
  /\ UNCHANGED <<pc, NOW, args, periods, disk, heap, tracker, tracker_section,
                 new_tracker_section, wanted, files_to_delete, loaded, planned, plan_disk,
                 store, runs, target_size, history>>

\* Lines 126-128
OtherPersist == OtherPersistOpen \/ OtherPersistWrite

----------------------------------------------------------------------------
(* Spec: invocations of main, one after the other, from a destination without *)
(* tracker.                                                                   *)

Init ==
  /\ pc = "idle"
  /\ NOW = 0
  /\ args = NoArgs
  /\ periods = <<>>
  /\ disk = {}
  /\ tracker_file = NoFile
  /\ heap = EmptyHeap
  /\ tracker = <<>>
  /\ tracker_section = <<>>
  /\ new_tracker_section = <<>>
  /\ wanted = <<>>
  /\ files_to_delete = {}
  /\ loaded = <<>>
  /\ planned = <<>>
  /\ plan_disk = {}
  /\ store = NoStore
  /\ runs = 0
  /\ target_size = -1
  /\ other = NoOther
  /\ race = NoRace
  /\ history = NoHistory

Next == Begin \/ Load \/ Plan \/ Archive \/ Delete \/ Persist \/ Crash

Spec == Init /\ [][Next]_vars

----------------------------------------------------------------------------
(* SpecPlan: main from line 108 on (get_plan, add_new_file, get_files_to_delete, *)
(* delete_files, write_tracker) on every input section, destination content,    *)
(* copies count and policy.                                                     *)

InitPlan ==
  /\ pc = "plan"
  /\ NOW \in ClockValues
  /\ periods \in {PERIODS(NOW), TwoPeriods}
  /\ disk \in SUBSET InputFiles
  /\ \E copies \in 0..MaxCopies, group \in BOOLEAN, value \in InputSections :
       LET stored == StoreSection([heap |-> EmptyHeap, section |-> <<>>], value,
                                  PeriodNames(periods))
       IN \* a group the tracker does not hold is planned with --new only (lines 87-105)
          /\ args = [file |-> IF group THEN FileA ELSE TargetPlain,
                     group_name |-> IF group THEN GroupG ELSE <<>>,
                     new |-> (value = <<>>), copies |-> copies, now |-> NOW,
                     min_size |-> 0]
          /\ heap = stored.heap
          /\ tracker_section = stored.section
          /\ tracker = <<[path |-> GroupName(args), section |-> stored.section]>>
          /\ loaded = value
          /\ tracker_file =
               IF value = <<>> THEN NoFile
               ELSE [present |-> TRUE,
                     lines |-> write_tracker(<<[path |-> GroupName(args), section |-> value]>>,
                                             periods, VERSION)]
  /\ args.group_name # <<>> => args.file \in disk     \* the target exists (line 70)
  /\ new_tracker_section = <<>>
  /\ wanted = <<>>
  /\ files_to_delete = {}
  /\ planned = <<>>
  /\ plan_disk = {}
  /\ store = NoStore
  /\ runs = 0
  /\ target_size = 3
  /\ other = NoOther
  /\ race = NoRace
  /\ history = NoHistory

NextPlan == Plan \/ Archive \/ Delete \/ Persist

SpecPlan == InitPlan /\ [][NextPlan]_vars

----------------------------------------------------------------------------
(* SpecStore: write_tracker, then read_tracker on what it wrote, for every input *)
(* tracker, written version and expected version.                                *)

MaxStoreSlots == 2    \* slots of a list of a tracker drawn as input

StoreGroupNames ==
  {GroupG, TargetPlain, <<" ","g">>, <<"g"," ">>, <<">","g">>, <<"\t","g">>}

GoodArchive == [timestamp |-> 5, file |-> FileA]

StoreArchives ==
  {GoodArchive,
   [timestamp |-> -3,      file |-> <<" ","a">>],
   [timestamp |-> 1000000, file |-> <<"b"," ">>],
   [timestamp |-> 7,       file |-> <<"a","\t","b">>],
   [timestamp |-> 0,       file |-> <<>>]}

StoreLists ==
  UNION {[1..n -> {<<>>} \cup {<<a>> : a \in StoreArchives}] : n \in 0..MaxStoreSlots}

SmallLists == {<<>>, << <<GoodArchive>> >>, << <<>>, <<GoodArchive>> >>}

StoreSections ==
  {<<>>}
    \cup {[p \in {hourly} |-> l] : l \in StoreLists}
    \cup {[p \in {daily} |-> m] : m \in SmallLists}
    \cup {[p \in {hourly, daily} |-> IF p = hourly THEN lm[1] ELSE lm[2]] :
            lm \in StoreLists \X SmallLists}

SmallSections ==
  {<<>>, [p \in {hourly} |-> << <<GoodArchive>> >>],
   [p \in {daily} |-> << <<>>, <<GoodArchive>> >>]}

StoreTrackers ==
  {<<>>}
    \cup {<<[path |-> n, section |-> sec]>> : n \in StoreGroupNames, sec \in StoreSections}
    \cup {<<[path |-> nn[1], section |-> ss[1]], [path |-> nn[2], section |-> ss[2]]>> :
            nn \in {<<GroupG, TargetPlain>>, <<TargetPlain, GroupG>>},
            ss \in SmallSections \X SmallSections}

\* The versions a tracker is written with, and the versions a reader expects, in tenths.
WriteVersions    == {0, 9, 10, 11, 19, VERSION, 21}
ExpectedVersions == {VERSION, 10}

InitStore ==
  /\ pc = "store"
  /\ NOW = 1000000
  /\ args = NoArgs
  /\ periods = PERIODS(1000000)
  /\ disk = {}
  /\ tracker_file = NoFile
  /\ heap = EmptyHeap
  /\ tracker = <<>>
  /\ tracker_section = <<>>
  /\ new_tracker_section = <<>>
  /\ wanted = <<>>
  /\ files_to_delete = {}
  /\ loaded = <<>>
  /\ planned = <<>>
  /\ plan_disk = {}
  /\ \E input \in StoreTrackers :
       store = [input |-> input, version |-> 0, expected |-> 0, text |-> <<>>,
                result |-> <<>>, stage |-> "made"]
  /\ runs = 0
  /\ target_size = -1
  /\ other = NoOther
  /\ race = NoRace
  /\ history = NoHistory

StoreWrite ==
  /\ store.stage = "made"
  /\ \E version \in WriteVersions :
       store' = [store EXCEPT !.version = version,
                              !.text = write_tracker(store.input, periods, version),
                              !.stage = "written"]
  /\ UNCHANGED <<pc, NOW, args, periods, disk, tracker_file, heap, tracker, tracker_section,
                 new_tracker_section, wanted, files_to_delete, loaded, planned, plan_disk,
                 runs, target_size, other, race, history>>

StoreRead ==
  /\ store.stage = "written"
  /\ \E expected \in ExpectedVersions :
       store' = [store EXCEPT !.expected = expected,
                              !.result = read_tracker(store.text, periods, expected),
                              !.stage = "read"]
  /\ UNCHANGED <<pc, NOW, args, periods, disk, tracker_file, heap, tracker, tracker_section,
                 new_tracker_section, wanted, files_to_delete, loaded, planned, plan_disk,
                 runs, target_size, other, race, history>>

NextStore == StoreWrite \/ StoreRead

SpecStore == InitStore /\ [][NextStore]_vars

----------------------------------------------------------------------------
(* SpecRead: read_tracker on tracker files as an editor can leave them: a start *)
(* of zero, one or two well-formed lines, then up to MaxLines lines drawn from  *)
(* RawLines.                                                                    *)

MaxLines == 3    \* lines after the start of a tracker file drawn as input

VersionLine == VersionPrefix \o FloatToStr(VERSION)

GoodLine1 == <<"\t","h","o","u","r","l","y","\t","1","\t","5","\t","a">>
GoodLine2 == <<"\t","H","o","u","r","l","y","\t","2","\t","7","\t","b">>

RawLines ==
  {GroupG,
   TargetPlain,
   GoodLine1,
   GoodLine2,
   <<"\t","h","o","u","r","l","y","\t","0","\t","9","\t","b">>,          \* copy 0
   <<"\t","h","o","u","r","l","y","\t","1","\t","5">>,                    \* 3 fields
   <<"\t","h","o","u","r","\t","1","\t","5","\t","a">>,                   \* no period
   <<"\t","h","o","u","r","l","y","\t","1","\t","5",".","0","\t","a">>,   \* timestamp
   <<"\t","h","o","u","r","l","y","\t","x","\t","5","\t","a">>,          \* copy
   <<"\t","h","o","u","r","l","y","\t","2","0","0","1","\t","5","\t","a">>,
   <<"\t"," ">>,                                                          \* blank
   <<">","x">>}                                                           \* comment

FileStarts == {<<>>, <<VersionLine>>, <<VersionLine, GroupG>>}

InitRead ==
  /\ pc = "store"
  /\ NOW = 1000000
  /\ args = NoArgs
  /\ periods = PERIODS(1000000)
  /\ disk = {}
  /\ tracker_file = NoFile
  /\ heap = EmptyHeap
  /\ tracker = <<>>
  /\ tracker_section = <<>>
  /\ new_tracker_section = <<>>
  /\ wanted = <<>>
  /\ files_to_delete = {}
  /\ loaded = <<>>
  /\ planned = <<>>
  /\ plan_disk = {}
  /\ \E start \in FileStarts, n \in 0..MaxLines : \E body \in [1..n -> RawLines] :
       store = [input |-> <<>>, version |-> VERSION, expected |-> 0,
                text |-> start \o body, result |-> <<>>, stage |-> "written"]
  /\ runs = 0
  /\ target_size = -1
  /\ other = NoOther
  /\ race = NoRace
  /\ history = NoHistory

NextRead == StoreRead

SpecRead == InitRead /\ [][NextRead]_vars

----------------------------------------------------------------------------
(* What the claims speak of. *)

\* The archives a section references, by content.
ArchivesOf(value) ==
  UNION {{value[p][i][1] : i \in {j \in 1..Len(value[p]) : value[p][j] # <<>>}} :
           p \in DOMAIN value}

\* The filenames a section references.
ReferencedFilenames(value) == {a.file : a \in ArchivesOf(value)}

OldSection == SectionValue(heap, tracker_section)
NewSection == SectionValue(heap, new_tracker_section)

\* The archives of the old section that qualify for slot i of period p: timestamp in
\* (now - i*L, now - (i-1)*L] and file in the destination when get_plan ran.
Qualifying(p, i) ==
  LET L == PeriodLength(periods, p)
  IN {a \in ArchivesOf(loaded) : /\ args.now - i * L < a.timestamp
                                  /\ a.timestamp <= args.now - (i - 1) * L
                                  /\ a.file \in plan_disk}

\* The reference add_new_file registers.
NewArchive == [timestamp |-> args.now, file |-> ArchiveFilename(args)]

Planned == pc \in {"archive", "delete", "persist", "write", "done"}

\* The ids of the lists and of the archive dicts a section reaches.
ListIds(section) == {section[p] : p \in DOMAIN section}
DictIds(section) ==
  UNION {{heap.lists[l][i] : i \in 1..Len(heap.lists[l])} : l \in ListIds(section)} \ {None}

----------------------------------------------------------------------------
(* SpecRace: two invocations at the same time on one tracker file, one for the  *)
(* target f.x and one for the group g with target c, both past the checks of    *)
(* lines 69-81.                                                                 *)

FileC == <<"c">>
FileD == <<"d">>

\* The section of f.x in the tracker file: with copies = 1 the run replaces the
\* hourly archive of 1000000, which is deleted when an older archive takes the
\* longer periods.
RaceSections ==
  {[p \in {hourly} |-> << <<[timestamp |-> 1000000, file |-> FileA]>> >>],
   [p \in {hourly, daily} |->
      IF p = hourly THEN << <<[timestamp |-> 1000000, file |-> FileA]>> >>
      ELSE << <<[timestamp |-> 996400, file |-> FileB]>> >>]}

\* The section of g in the tracker file; <<>>: the file does not hold the group.
OtherSections ==
  {<<>>,
   [p \in {hourly} |-> << <<[timestamp |-> 1000000, file |-> FileC]>> >>],
   [p \in {hourly, daily} |->
      IF p = hourly THEN << <<[timestamp |-> 1000000, file |-> FileD]>> >>
      ELSE << <<[timestamp |-> 996400, file |-> FileC]>> >>]}

InitRace ==
  /\ pc = "load"
  /\ NOW = 1003600
  /\ periods = PERIODS(1003600)
  /\ \E section \in RaceSections, other_section \in OtherSections,
        copies \in 1..MaxCopies, other_copies \in 1..MaxCopies :
       /\ args = [file |-> TargetPlain, group_name |-> <<>>, new |-> FALSE,
                  copies |-> copies, now |-> 1003600, min_size |-> 0]
       /\ other = [NoOther EXCEPT
                     !.pc = "load",
                     !.args = [file |-> FileC, group_name |-> GroupG,
                               new |-> (other_section = <<>>), copies |-> other_copies,
                               now |-> 1003600, min_size |-> 0]]
       /\ tracker_file =
            [present |-> TRUE,
             lines |-> write_tracker(
                         <<[path |-> TargetPlain, section |-> section]>>
                           \o (IF other_section = <<>> THEN <<>>
                               ELSE <<[path |-> GroupG, section |-> other_section]>>),
                         periods, VERSION)]
       /\ disk = ReferencedFilenames(section) \cup {TargetPlain, FileC}
                   \cup (IF other_section = <<>> THEN {}
                         ELSE ReferencedFilenames(other_section))
  /\ heap = EmptyHeap
  /\ tracker = <<>>
  /\ tracker_section = <<>>
  /\ new_tracker_section = <<>>
  /\ wanted = <<>>
  /\ files_to_delete = {}
  /\ loaded = <<>>
  /\ planned = <<>>
  /\ plan_disk = {}
  /\ store = NoStore
  /\ runs = 0
  /\ target_size = 5
  /\ race = NoRace
  /\ history = NoHistory

NextRace ==
  \/ Load \/ Plan \/ Archive \/ Delete \/ Persist
  \/ OtherLoad \/ OtherPlan \/ OtherArchive \/ OtherDelete \/ OtherPersist

SpecRace == InitRace /\ [][NextRace]_vars

----------------------------------------------------------------------------
(* SpecShared: one invocation on a tracker file that holds the section of its    *)
(* group and the section of another group h; h may reference a file the group   *)
(* of the invocation references too (in group mode the archive is the target    *)
(* itself, and one file can be the target of invocations for several groups).   *)

GroupH == <<"h">>

\* The section of h in the tracker file: one that shares a with the sections of
\* RaceSections, one that references the target c, one that shares nothing.
SharedSections ==
  {[p \in {hourly} |-> << <<[timestamp |-> 1000000, file |-> FileA]>> >>],
   [p \in {hourly, daily} |->
      IF p = hourly THEN << <<[timestamp |-> 1000000, file |-> FileD]>> >>
      ELSE << <<[timestamp |-> 996400, file |-> FileC]>> >>],
   [p \in {daily} |-> << <<>>, <<[timestamp |-> 913600, file |-> FileD]>> >>]}

InitShared ==
  /\ pc = "load"
  /\ NOW \in ClockValues
  /\ periods = PERIODS(NOW)
  /\ \E section \in RaceSections, shared \in SharedSections,
        copies \in 0..MaxCopies, group \in BOOLEAN :
       /\ args = [file |-> IF group THEN FileC ELSE TargetPlain,
                  group_name |-> IF group THEN GroupG ELSE <<>>,
                  new |-> FALSE, copies |-> copies, now |-> NOW, min_size |-> 0]
       /\ tracker_file =
            [present |-> TRUE,
             lines |-> write_tracker(<<[path |-> GroupH, section |-> shared],
                                       [path |-> GroupName(args), section |-> section]>>,
                                     periods, VERSION)]
       /\ disk = ReferencedFilenames(section) \cup ReferencedFilenames(shared)
                   \cup {args.file}
  /\ heap = EmptyHeap
  /\ tracker = <<>>
  /\ tracker_section = <<>>
  /\ new_tracker_section = <<>>
  /\ wanted = <<>>
  /\ files_to_delete = {}
  /\ loaded = <<>>
  /\ planned = <<>>
  /\ plan_disk = {}
  /\ store = NoStore
  /\ runs = 0
  /\ target_size = 5
  /\ other = NoOther
  /\ race = NoRace
  /\ history = NoHistory

NextShared == Load \/ Plan \/ Archive \/ Delete \/ Persist

SpecShared == InitShared /\ [][NextShared]_vars

----------------------------------------------------------------------------
(* SpecHeal: invocations one after the other for the target f.x with the default  *)
(* now (the process start time) and two copies or more, from a destination       *)
(* without tracker. The clock does not go back: an invocation starts in the      *)
(* second the one before it started in, or half an hour or an hour later.        *)
(* Invocations keep occurring (weak fairness of the start of one) and every one  *)
(* runs on to its end or to the failure that ends it. No invocation follows one *)
(* that failed.                                                                  *)

MaxTicks == 100    \* half hours the clock runs for: two days and four hours

HealSteps == {1800, 3600}

MaxNow == 1000000 + MaxTicks * 1800

\* main, lines 61-81, for an invocation that starts at `time`
BeginAt(time) ==
  /\ pc = "done"
  /\ NOW' = time
  /\ periods' = PERIODS(time)
  /\ args' = [args EXCEPT !.new = FALSE, !.now = time]
  /\ pc' = "load"
  /\ heap' = EmptyHeap
  /\ tracker' = <<>> /\ tracker_section' = <<>> /\ new_tracker_section' = <<>>
  /\ wanted' = <<>> /\ files_to_delete' = {} /\ loaded' = <<>> /\ planned' = <<>>
  /\ plan_disk' = {}
  /\ history' = NoHistory
  /\ UNCHANGED <<disk, tracker_file, store, runs, target_size, other, race>>

\* The next invocation starts within the same second.
BeginSame == BeginAt(NOW)

\* The next invocation starts later.
BeginLater == \E step \in HealSteps : NOW + step <= MaxNow /\ BeginAt(NOW + step)

InitHeal ==
  /\ pc = "load"
  /\ NOW = 1000000
  /\ periods = PERIODS(NOW)
  /\ \E copies \in 2..MaxCopies :
       args = [file |-> TargetPlain, group_name |-> <<>>, new |-> TRUE,
               copies |-> copies, now |-> NOW, min_size |-> 0]
  /\ disk = {TargetPlain}
  /\ tracker_file = NoFile
  /\ heap = EmptyHeap
  /\ tracker = <<>>
  /\ tracker_section = <<>>
  /\ new_tracker_section = <<>>
  /\ wanted = <<>>
  /\ files_to_delete = {}
  /\ loaded = <<>>
  /\ planned = <<>>
  /\ plan_disk = {}
  /\ store = NoStore
  /\ runs = 1
  /\ target_size = 5
  /\ other = NoOther
  /\ race = NoRace
  /\ history = NoHistory

NextHeal == BeginSame \/ BeginLater \/ Load \/ Plan \/ Archive \/ Delete \/ Persist

\* A started invocation takes its steps: each of Load, Plan, Archive, Delete and
\* Persist is enabled exactly at its own value of pc and leaves it, so weak
\* fairness of each of them is that pc is again and again at the end of a run.
RunsOn == []<>(pc \in {"done", "aborted"})

SpecHeal ==
  InitHeal /\ [][NextHeal]_vars /\ WF_vars(BeginSame \/ BeginLater) /\ RunsOn

----------------------------------------------------------------------------
(* SpecRuns: invocations one after the other for one target in one destination,  *)
(* starting without tracker file; a further invocation follows a completed one,  *)
(* and nothing but the invocations changes the destination.                      *)

\* The process start time and the value of --now of an invocation: the default (now
\* is the start time), a --now before the start time and one far after it.
RunTimes ==
  {<<1000000, 1000000>>, <<1003600, 1003600>>, <<1003600, 1000000>>, <<1003600, 2003600>>}

\* Lines 61-81 for the target of the runs before: --new is given for the first run,
\* and a target that is gone ends the run (line 71).
BeginNext ==
  /\ pc \in {"idle", "done"}
  /\ runs < MaxRuns + 1
  /\ \E time \in RunTimes, copies \in 0..MaxCopies :
       /\ time[1] >= NOW
       /\ NOW' = time[1]
       /\ periods' = PERIODS(time[1])
       /\ args' = [args EXCEPT !.new = (runs = 0), !.copies = copies, !.now = time[2]]
  /\ pc' = IF TargetNotFound(IF args.file \in disk THEN target_size ELSE -1)
           THEN "aborted" ELSE "load"
  /\ runs' = runs + 1
  /\ heap' = EmptyHeap
  /\ tracker' = <<>> /\ tracker_section' = <<>> /\ new_tracker_section' = <<>>
  /\ wanted' = <<>> /\ files_to_delete' = {} /\ loaded' = <<>> /\ planned' = <<>>
  /\ plan_disk' = {}
  /\ UNCHANGED <<disk, tracker_file, store, target_size, other, race, history>>

InitRuns ==
  /\ pc = "idle"
  /\ NOW = 0
  /\ \E group \in BOOLEAN :
       /\ args = [NoArgs EXCEPT !.file = IF group THEN FileA ELSE TargetPlain,
                                !.group_name = IF group THEN GroupG ELSE <<>>]
       /\ disk = {args.file}
  /\ periods = <<>>
  /\ tracker_file = NoFile
  /\ heap = EmptyHeap
  /\ tracker = <<>>
  /\ tracker_section = <<>>
  /\ new_tracker_section = <<>>
  /\ wanted = <<>>
  /\ files_to_delete = {}
  /\ loaded = <<>>
  /\ planned = <<>>
  /\ plan_disk = {}
  /\ store = NoStore
  /\ runs = 0
  /\ target_size = 5
  /\ other = NoOther
  /\ race = NoRace
  /\ history = NoHistory

NextRuns == BeginNext \/ Load \/ Plan \/ Archive \/ Delete \/ Persist

SpecRuns == InitRuns /\ [][NextRuns]_vars

----------------------------------------------------------------------------
(* C1: get_files_to_delete(old, final) is exactly the filenames referenced by a *)
(* populated slot of the old section minus those referenced by a populated slot *)
(* of the final section; so no filename the final section references, the newly *)
(* registered archive included, is in files_to_delete.                          *)
C1_DeletionSet ==
  pc = "persist" =>
    /\ files_to_delete = ReferencedFilenames(OldSection) \ ReferencedFilenames(NewSection)
    /\ files_to_delete \cap ReferencedFilenames(NewSection) = {}
    /\ wanted # <<>> => NewArchive.file \notin files_to_delete

\* Some old file is deleted, some old file is kept, and the new archive, whose name
\* the old section already references, is registered.
C1_Witness ==
  /\ pc = "persist"
  /\ files_to_delete # {}
  /\ ReferencedFilenames(OldSection) \cap ReferencedFilenames(NewSection) # {}
  /\ wanted # <<>>
  /\ NewArchive.file \in ReferencedFilenames(OldSection)

(* C2: slot i (1..C) of every policy period p holds, after get_plan, an archive of *)
(* the pool of all periods of the old section that has the smallest timestamp      *)
(* among those with now - i*L < t <= now - (i-1)*L whose file exists; the slot is   *)
(* empty exactly when there is no such archive.                                    *)
C2_OldestInWindow ==
  pc = "archive" =>
    \A p \in PeriodKeys(periods) : \A i \in 1..args.copies :
      LET q == Qualifying(p, i)
          s == planned[p][i]
      IN /\ (s = <<>>) <=> (q = {})
         /\ s # <<>> => /\ s[1] \in q
                        /\ \A b \in q : s[1].timestamp <= b.timestamp

\* Two archives of different age qualify for slot 1 of a period under which the old
\* section lists nothing, and the slot takes one of them.
C2_Witness ==
  /\ pc = "archive"
  /\ args.copies >= 1
  /\ \E p \in PeriodKeys(periods) :
       /\ Cardinality({a.timestamp : a \in Qualifying(p, 1)}) = 2
       /\ p \notin DOMAIN loaded
       /\ planned[p][1] # <<>>

(* C3: wanted holds exactly one entry {p, 1} for each policy period p whose slot 1 *)
(* (C >= 1) has no qualifying candidate, and nothing else; an empty slot of index *)
(* > 1 is never wanted.                                                           *)
C3_WantedOnlyCopyOne ==
  pc = "archive" =>
    /\ \A k \in 1..Len(wanted) : wanted[k].copy = 1
    /\ \A j, k \in 1..Len(wanted) : wanted[j] = wanted[k] => j = k
    /\ \A p \in PeriodKeys(periods) :
         (\E k \in 1..Len(wanted) : wanted[k].period = p)
           <=> (args.copies >= 1 /\ Qualifying(p, 1) = {})
    /\ \A k \in 1..Len(wanted) : wanted[k].period \in PeriodKeys(periods)

\* No archive at all and C = 2: every slot 2 is empty, only copy-1 entries are wanted.
C3_Witness ==
  /\ pc = "archive"
  /\ args.copies = 2
  /\ loaded = <<>>
  /\ Len(wanted) = Len(periods)
  /\ \A p \in PeriodKeys(periods) : planned[p][2] = <<>>

\* A slot 2 is empty while slot 1 of the period is filled.
C3_WitnessGap ==
  /\ pc = "archive"
  /\ args.copies = 2
  /\ \E p \in PeriodKeys(periods) : planned[p][1] # <<>> /\ planned[p][2] = <<>>

(* C4: every period of the section get_plan returns has exactly C slots, and still *)
(* has exactly C slots after add_new_file.                                         *)
C4_SlotCount ==
  Planned =>
    /\ DOMAIN new_tracker_section = PeriodKeys(periods)
    /\ \A p \in DOMAIN new_tracker_section :
         Len(heap.lists[new_tracker_section[p]]) = args.copies

C4_Witness ==
  /\ pc = "delete"
  /\ args.copies = 2
  /\ wanted # <<>>
  /\ ArchivesOf(planned) # {}

(* C5: get_plan leaves the old section as it was loaded and the new section shares *)
(* no list and no archive dict with it; the old section is still as loaded after   *)
(* add_new_file has changed the new section.                                       *)
C5_OldSectionUntouched ==
  Planned =>
    /\ OldSection = loaded
    /\ ListIds(tracker_section) \cap ListIds(new_tracker_section) = {}
    /\ DictIds(tracker_section) \cap DictIds(new_tracker_section) = {}

\* add_new_file has replaced a slot's content in a section that kept old archives.
C5_Witness ==
  /\ pc = "delete"
  /\ wanted # <<>>
  /\ ArchivesOf(loaded) \cap ArchivesOf(planned) # {}
  /\ NewSection # planned

(* C6: when wanted is not empty, after add_new_file every wanted (period, copy)   *)
(* slot holds the reference {timestamp: now, file: basename of the new archive}, *)
(* and every other slot is as get_plan left it.                                  *)
C6_RegisteredEverywhere ==
  (pc = "delete" /\ wanted # <<>>) =>
    /\ DOMAIN NewSection = DOMAIN planned
    /\ \A p \in DOMAIN planned :
         /\ Len(NewSection[p]) = Len(planned[p])
         /\ \A i \in 1..Len(planned[p]) :
              IF \E k \in 1..Len(wanted) : wanted[k] = [period |-> p, copy |-> i]
              THEN NewSection[p][i] = <<NewArchive>>
              ELSE NewSection[p][i] = planned[p][i]

\* Two slots are wanted and get the same file, and a slot that is not wanted is filled.
C6_Witness ==
  /\ pc = "delete"
  /\ Len(wanted) >= 2
  /\ wanted[1].period # wanted[2].period
  /\ NewSection[wanted[1].period][1] = NewSection[wanted[2].period][1]
  /\ NewSection[wanted[1].period][1] # <<>>
  /\ \E p \in DOMAIN planned : planned[p][1] # <<>>

(* C7 as stated: planning an empty old section gives a new section without      *)
(* populated slot and a wanted list of exactly one copy-1 entry per policy period, *)
(* in ascending order of period duration.                                          *)
C7_ColdStartAnyCopies ==
  (pc = "archive" /\ loaded = <<>>) =>
    /\ ArchivesOf(planned) = {}
    /\ Len(wanted) = Len(periods)
    /\ {wanted[k].period : k \in 1..Len(wanted)} = PeriodKeys(periods)
    /\ \A k \in 1..Len(wanted) : wanted[k].copy = 1
    /\ \A j, k \in 1..Len(wanted) :
         j < k => PeriodLength(periods, wanted[j].period)
                    <= PeriodLength(periods, wanted[k].period)

(* C7, amended: the same for a required copies count C >= 1; and for the periods *)
(* {hourly:3600, daily:86400}, C = 1, now = 1000000, wanted is                    *)
(* [{hourly,1}, {daily,1}].                                                       *)
C7_ColdStart ==
  (pc = "archive" /\ loaded = <<>> /\ args.copies >= 1) =>
    /\ ArchivesOf(planned) = {}
    /\ Len(wanted) = Len(periods)
    /\ {wanted[k].period : k \in 1..Len(wanted)} = PeriodKeys(periods)
    /\ \A k \in 1..Len(wanted) : wanted[k].copy = 1
    /\ \A j, k \in 1..Len(wanted) :
         j < k => PeriodLength(periods, wanted[j].period)
                    <= PeriodLength(periods, wanted[k].period)
    /\ (periods = TwoPeriods /\ args.copies = 1 /\ args.now = 1000000) =>
         wanted = <<[period |-> hourly, copy |-> 1], [period |-> daily, copy |-> 1]>>

\* The cold start of the worked example, and one where sorting changes the order
\* of the periods (forever, of length NOW - 1, is shorter than monthly).
C7_Witness ==
  /\ pc = "archive"
  /\ loaded = <<>>
  /\ args.copies = 1
  /\ args.now = 1000000
  /\ periods = TwoPeriods
  /\ wanted = <<[period |-> hourly, copy |-> 1], [period |-> daily, copy |-> 1]>>

(* C8: with C = 1 and one old archive whose file exists and whose timestamp is    *)
(* now - L for a policy period of length L, a run marks copy 1 of every period of *)
(* length <= L as wanted and registers the new archive there, keeps copy 1 of     *)
(* every longer period satisfied by the old archive, and, when there is a longer  *)
(* period, does not put the old archive's file in files_to_delete.                *)
C8_BoundaryAge ==
  \A short \in PeriodKeys(periods) :
    LET L   == PeriodLength(periods, short)
        old == CHOOSE a \in ArchivesOf(loaded) : TRUE
    IN (/\ pc \in {"delete", "persist"}
        /\ args.copies = 1
        /\ Cardinality(ArchivesOf(loaded)) = 1
        /\ old.timestamp = args.now - L
        /\ old.file \in plan_disk)
       =>
       /\ \A p \in PeriodKeys(periods) :
            LET w == \E k \in 1..Len(wanted) : wanted[k] = [period |-> p, copy |-> 1]
            IN IF PeriodLength(periods, p) <= L
               THEN w /\ planned[p][1] = <<>> /\ NewSection[p][1] = <<NewArchive>>
               ELSE ~w /\ planned[p][1] = <<old>> /\ NewSection[p][1] = <<old>>
       /\ (pc = "persist" /\ \E p \in PeriodKeys(periods) : PeriodLength(periods, p) > L)
            => old.file \notin files_to_delete

\* The worked example: the archive of 1000000 listed as hourly and daily copy 1,
\* now = 1003600.
C8_Witness ==
  /\ pc = "persist"
  /\ args.copies = 1
  /\ args.now = 1003600
  /\ periods = TwoPeriods
  /\ loaded = [p \in {hourly, daily} |-> << <<[timestamp |-> 1000000, file |-> FileA]>> >>]
  /\ wanted = <<[period |-> hourly, copy |-> 1]>>
  /\ NewSection[daily][1] = <<[timestamp |-> 1000000, file |-> FileA]>>
  /\ NewSection[hourly][1] = <<NewArchive>>
  /\ files_to_delete = {}
  /\ FileA \in plan_disk

----------------------------------------------------------------------------
(* The tracker store. *)

\* Every slot of the tracker is populated.
AllPopulated(entries) ==
  \A k \in 1..Len(entries) : \A p \in DOMAIN entries[k].section :
    \A i \in 1..Len(entries[k].section[p]) : entries[k].section[p][i] # <<>>

\* Every group has a period, and no period has an empty list.
NoEmptyGroup(entries) ==
  \A k \in 1..Len(entries) :
    /\ DOMAIN entries[k].section # {}
    /\ \A p \in DOMAIN entries[k].section : entries[k].section[p] # <<>>

\* The names the format can hold: a group name is not empty, has no whitespace at
\* either end and does not start with ">"; a filename is not empty, holds no tab
\* and does not end in whitespace.
NamesDescribable(entries) ==
  \A k \in 1..Len(entries) :
    /\ entries[k].path # <<>>
    /\ Strip(entries[k].path) = entries[k].path
    /\ Head(entries[k].path) # ">"
    /\ \A a \in ArchivesOf(entries[k].section) :
         /\ a.file # <<>>
         /\ \A j \in 1..Len(a.file) : a.file[j] # "\t"
         /\ a.file[Len(a.file)] \notin Whitespace

SameVersion == store.version = VERSION /\ store.expected = VERSION

C10_VersionGate ==
  store.stage = "read" =>
    LET declared == store.version
        expected == store.expected
        result   == store.result
    IN /\ (declared > expected \/ expected - declared >= 10)
            => (result.status = "fail" /\ result.error = "version"
                /\ result.tracker = <<>>)
       /\ ~(declared > expected \/ expected - declared >= 10)
            => /\ result.error # "version"
               /\ NamesDescribable(store.input) => result.status = "ok"
       /\ (expected = 20 /\ declared = 10) => result.status = "fail"
       /\ (expected = 20 /\ declared = 20 /\ NamesDescribable(store.input))
            => result.status = "ok"

\* Version 1.0 read by an implementation that expects 2.0.
C10_Witness ==
  /\ store.stage = "read"
  /\ store.version = 10
  /\ store.expected = 20
  /\ store.input # <<>>
  /\ store.result.status = "fail"
  /\ store.result.error = "version"


----------------------------------------------------------------------------
(* The lines of a tracker file, as the format names them. *)

IsBlank(line_raw) == Strip(line_raw) = <<>>

IsHeaderLine(line_raw) == StartsWith(line_raw, <<">">>) /\ ~IsBlank(line_raw)

IsVersionLine(line_raw) ==
  IsHeaderLine(line_raw) /\ StartsWith(Strip(line_raw), VersionPrefix)

IsDataLine(line_raw) == StartsWith(line_raw, <<"\t">>) /\ ~IsBlank(line_raw)

IsSectionLine(line_raw) ==
  ~IsBlank(line_raw) /\ ~IsHeaderLine(line_raw) /\ ~IsDataLine(line_raw)

\* The tab-separated fields of a data line, the line's surrounding whitespace aside.
FieldsOf(line_raw) == Split(Strip(line_raw), "\t")

Malformed(line_raw) ==
  /\ IsDataLine(line_raw)
  /\ \/ Len(FieldsOf(line_raw)) # 4
     \/ /\ Len(FieldsOf(line_raw)) = 4
        /\ \/ Lower(FieldsOf(line_raw)[1]) \notin PeriodKeys(periods)
           \/ ~ParseInt(FieldsOf(line_raw)[3]).ok
           \/ ~ParseInt(FieldsOf(line_raw)[2]).ok
           \/ ParseInt(FieldsOf(line_raw)[2]).value > 2000

SectionBeforeVersion(lines) ==
  \E k \in 1..Len(lines) :
    /\ IsSectionLine(lines[k])
    /\ \A j \in 1..(k - 1) : ~IsVersionLine(lines[j])

(* C11: read_tracker does not return a tracker when the file holds a data line  *)
(* that does not split into exactly 4 tab-separated fields, or names a period   *)
(* outside the known set, or has a timestamp or copy number that is not an      *)
(* integer, or a copy number above 2000, or holds a section line before any     *)
(* version header.                                                              *)
C11_MalformedAborts ==
  (store.stage = "read"
     /\ (\/ \E k \in 1..Len(store.text) : Malformed(store.text[k])
         \/ SectionBeforeVersion(store.text)))
  => (store.result.status = "fail" /\ store.result.tracker = <<>>)

\* A well-formed start and data line, then a copy number above 2000.
C11_Witness ==
  /\ store.stage = "read"
  /\ store.expected = VERSION
  /\ Len(store.text) = 4
  /\ store.text[1] = VersionLine /\ store.text[2] = GroupG /\ store.text[3] = GoodLine1
  /\ Malformed(store.text[4])
  /\ store.result.status = "fail"
  /\ store.result.error = "copy too large"

----------------------------------------------------------------------------
(* The text write_tracker is to produce. *)

\* The populated slots of a section, as <<period, index>>.
PopulatedSlots(section) ==
  {pi \in UNION {{<<p, i>> : i \in 1..Len(section[p])} : p \in DOMAIN section} :
     section[pi[1]][pi[2]] # <<>>}

\* Slot s comes before slot t: a shorter period, or the same period and a lower index.
SlotBefore(s, t) ==
  \/ PeriodLength(periods, s[1]) < PeriodLength(periods, t[1])
  \/ s[1] = t[1] /\ s[2] < t[2]

\* The number of lines the first n groups take.
RECURSIVE GroupLines(_, _)
GroupLines(entries, n) ==
  IF n = 0 THEN 0
  ELSE GroupLines(entries, n - 1) + 1 + Cardinality(PopulatedSlots(entries[n].section))

\* The data line of slot i of period p holding archive a.
SlotLine(p, i, a) ==
  <<"\t">> \o p \o <<"\t">> \o NatToStr(i) \o <<"\t">> \o IntToStr(a.timestamp)
    \o <<"\t">> \o a.file

(* C12: the text write_tracker writes is one version header line, then for each   *)
(* group its path line followed by one data line per populated slot, the periods *)
(* in ascending order of duration and the slots of a period in index order; no   *)
(* line stands for an empty slot, and a data line carries the 1-based index of   *)
(* its slot as copy number.                                                      *)
C12_WrittenLayout ==
  store.stage \in {"written", "read"} =>
    LET entries == store.input
        text    == store.text
    IN /\ Len(text) = 1 + GroupLines(entries, Len(entries))
       /\ text[1] = VersionPrefix \o FloatToStr(store.version)
       /\ \A k \in 1..Len(entries) :
            LET at == 1 + GroupLines(entries, k - 1) + 1
                slots == PopulatedSlots(entries[k].section)
            IN /\ text[at] = entries[k].path
               /\ \A s \in slots :
                    text[at + Cardinality({t \in slots : SlotBefore(t, s)}) + 1]
                      = SlotLine(s[1], s[2], entries[k].section[s[1]][s[2]][1])

\* A group of two periods, the shorter one with an empty slot 1 before a populated slot 2.
C12_Witness ==
  /\ store.stage = "written"
  /\ Len(store.input) = 1
  /\ DOMAIN store.input[1].section = {hourly, daily}
  /\ Len(store.input[1].section[hourly]) = 2
  /\ store.input[1].section[hourly][1] = <<>>
  /\ store.input[1].section[hourly][2] # <<>>
  /\ store.input[1].section[daily] = << <<GoodArchive>> >>
  /\ Len(store.text) = 4

----------------------------------------------------------------------------
(* The sections a tracker file describes. *)

\* The file cut at its section lines: [path, lines] per section line, in file
\* order, `lines` being the data lines up to the next section line.
RECURSIVE BlocksOf(_, _)
BlocksOf(lines, blocks) ==
  IF lines = <<>> THEN blocks
  ELSE IF IsSectionLine(Head(lines))
       THEN BlocksOf(Tail(lines), Append(blocks, [path |-> Strip(Head(lines)), lines |-> <<>>]))
  ELSE IF IsDataLine(Head(lines)) /\ blocks # <<>>
       THEN BlocksOf(Tail(lines),
                     [blocks EXCEPT ![Len(blocks)].lines = Append(@, Head(lines))])
  ELSE BlocksOf(Tail(lines), blocks)

LinePeriod(line_raw)  == Lower(FieldsOf(line_raw)[1])
LineCopy(line_raw)    == ParseInt(FieldsOf(line_raw)[2]).value
LineArchive(line_raw) ==
  [timestamp |-> ParseInt(FieldsOf(line_raw)[3]).value, file |-> FieldsOf(line_raw)[4]]

\* The section the data lines describe: slot k of period p holds the archive of the
\* last line that names (p, k), and is empty when no line names it.
DescribedSection(lines) ==
  LET named(p, k) == {n \in 1..Len(lines) : LinePeriod(lines[n]) = p /\ LineCopy(lines[n]) = k}
      last(p, k)  == CHOOSE n \in named(p, k) : \A m \in named(p, k) : m <= n
      of_period(p) == {n \in 1..Len(lines) : LinePeriod(lines[n]) = p}
      top(p)      == CHOOSE k \in {LineCopy(lines[n]) : n \in of_period(p)} :
                       \A n \in of_period(p) : LineCopy(lines[n]) <= k
  IN [p \in {LinePeriod(lines[n]) : n \in 1..Len(lines)} |->
        [k \in 1..top(p) |->
           IF named(p, k) # {} THEN <<LineArchive(lines[last(p, k)])>> ELSE <<>>]]

\* The tracker the file describes: per group name, the section of the last block of
\* that name that has a data line.
DescribedTracker(text) ==
  LET blocks == BlocksOf(text, <<>>)
      full   == {n \in 1..Len(blocks) : blocks[n].lines # <<>>}
      last(path) == CHOOSE n \in full :
                      /\ blocks[n].path = path
                      /\ \A m \in full : blocks[m].path = path => m <= n
  IN [path \in {blocks[n].path : n \in full} |-> DescribedSection(blocks[last(path)].lines)]

(* C13: when read_tracker accepts a file, slot k of a period of a group holds the  *)
(* archive of the data line of that group that names the period and copy number k *)
(* (the last such line), whatever the order of the lines; every index up to the   *)
(* highest one named that no line names is an empty slot; so no line changes a    *)
(* slot other than the one its copy number names.                                 *)
C13_SlotFromCopyNumber ==
  (store.stage = "read" /\ store.result.status = "ok")
  => AsDict(store.result.tracker) = DescribedTracker(store.text)

\* The same for the files whose copy numbers are all at least 1.
C13_PositiveCopyNumbers ==
  (store.stage = "read" /\ store.result.status = "ok"
     /\ \A n \in 1..Len(store.text) :
          IsDataLine(store.text[n]) => LineCopy(store.text[n]) >= 1)
  => AsDict(store.result.tracker) = DescribedTracker(store.text)

----------------------------------------------------------------------------
(* The invocation. *)

\* What read_tracker makes of the tracker file.
FileRead == read_tracker(tracker_file.lines, periods, VERSION)

\* The tracker has no entry for the group of this invocation: there is no tracker
\* file, or the file is read and does not hold the group.
GroupMissing ==
  \/ ~tracker_file.present
  \/ FileRead.status = "ok" /\ ~DictHas(FileRead.tracker, GroupName(args))

(* C14: when the tracker has no entry for the group (no tracker file, or a file   *)
(* without the group), the run goes on, from an empty section, only with --new;  *)
(* without it the run ends at once: it creates no archive, deletes no file and   *)
(* does not write the tracker, and nothing happens until the next invocation.    *)
C14_NewGroupNeedsFlag ==
  [][/\ (pc = "load" /\ pc' # "crashed" /\ GroupMissing) =>
          IF args.new
          THEN pc' = "plan" /\ loaded' = <<>> /\ tracker_section' = <<>>
          ELSE pc' = "aborted" /\ disk' = disk /\ tracker_file' = tracker_file
     /\ pc = "aborted" => runs' = runs + 1]_vars

\* A run without --new stopped at a tracker file that holds another group only.
C14_Witness ==
  /\ pc = "aborted"
  /\ target_size >= 0 /\ args.min_size = 0
  /\ planned = <<>>
  /\ ~args.new
  /\ tracker_file.present
  /\ FileRead.status = "ok"
  /\ FileRead.tracker # <<>>
  /\ ~DictHas(FileRead.tracker, GroupName(args))

(* C15: an invocation whose target is not a file, or is smaller than a given      *)
(* --min-size, ends before it changes anything: no file of the destination is    *)
(* created or deleted, the tracker file is not read into a tracker and is not    *)
(* written, and nothing happens until the next invocation.                       *)
C15_TargetChecksFirst ==
  [][/\ (runs' = runs + 1
          /\ (target_size' < 0
                \/ (args'.min_size # 0 /\ target_size' < args'.min_size)))
        => /\ pc' = "aborted"
           /\ disk' \ {args'.file} = disk \ {args'.file}
           /\ tracker_file' = tracker_file
           /\ tracker' = <<>>
     /\ (pc = "aborted" /\ tracker = <<>>) => runs' = runs + 1]_vars

\* A target of 5 bytes under --min-size 6, in a destination that has a tracker file.
C15_Witness ==
  /\ pc = "aborted"
  /\ target_size = 5
  /\ args.min_size = 6
  /\ tracker = <<>>
  /\ tracker_file.present
  /\ tracker_file.lines # <<>>

----------------------------------------------------------------------------
(* Archives whose file is gone. *)

\* The archives of the old section whose file was not in the destination when
\* get_plan ran.
MissingArchives == {a \in ArchivesOf(loaded) : a.file \notin plan_disk}

\* The archives of the old section whose timestamp is in the window of slot i of
\* period p, their file being there or not.
InWindow(p, i) ==
  LET L == PeriodLength(periods, p)
  IN {a \in ArchivesOf(loaded) : /\ args.now - i * L < a.timestamp
                                  /\ a.timestamp <= args.now - (i - 1) * L}

\* The old section with the slots of the missing archives emptied.
WithoutMissing(value) ==
  [p \in DOMAIN value |->
     [i \in 1..Len(value[p]) |->
        IF value[p][i] # <<>> /\ value[p][i][1].file \notin plan_disk
        THEN <<>> ELSE value[p][i]]]

\* get_plan on a section given by content, with the destination as it was.
PlanOf(value) ==
  LET stored == StoreSection([heap |-> EmptyHeap, section |-> <<>>], value,
                             PeriodNames(periods))
      plan   == get_plan(stored.heap, stored.section, plan_disk, args.copies, periods,
                         args.now)
  IN [section |-> SectionValue(plan.heap, plan.section), wanted |-> plan.wanted]

(* C16: an archive of the old section whose file is absent from the destination   *)
(* does not stop planning and counts as if it were not there: no slot of the new *)
(* section holds it, a slot 1 whose window holds missing archives only is wanted, *)
(* and the plan is the plan of the old section without the missing archives.     *)
C16_MissingFileIgnored ==
  /\ planned = <<>> => pc = "plan"
  /\ pc = "archive" =>
       /\ ArchivesOf(planned) \cap MissingArchives = {}
       /\ \A p \in PeriodKeys(periods) :
            (args.copies >= 1 /\ InWindow(p, 1) # {} /\ InWindow(p, 1) \subseteq MissingArchives)
              => \E k \in 1..Len(wanted) : wanted[k] = [period |-> p, copy |-> 1]
       /\ PlanOf(WithoutMissing(loaded)) = [section |-> planned, wanted |-> wanted]

\* One archive is missing and the only one in the window of a slot 1, which is then
\* wanted, while another archive, whose file is there, is kept.
C16_Witness ==
  /\ pc = "archive"
  /\ args.copies >= 1
  /\ \E p \in PeriodKeys(periods) :
       /\ InWindow(p, 1) # {}
       /\ InWindow(p, 1) \subseteq MissingArchives
       /\ \E k \in 1..Len(wanted) : wanted[k] = [period |-> p, copy |-> 1]
  /\ ArchivesOf(planned) # {}

(* C17: delete_files skips a file of files_to_delete that is not in the           *)
(* destination and removes the others, after which the run is at the point where *)
(* it writes the tracker; the run ends otherwise only over a file that is there  *)
(* and could not be removed, and then the tracker file is not written.           *)
C17_DeleteSkipsMissing ==
  [][/\ pc = "delete" =>
          /\ pc' \in {"persist", "aborted"}
          /\ pc' = "persist" => disk' = disk \ files_to_delete'
          /\ pc' = "aborted" =>
               /\ \E filename \in files_to_delete' : filename \in disk /\ filename \in disk'
               /\ tracker_file' = tracker_file
               /\ disk' \subseteq disk /\ disk \ disk' \subseteq files_to_delete'
     /\ tracker_file' # tracker_file => pc \in {"persist", "write"}
     /\ pc = "aborted" => pc' = "aborted"]_vars

\* One file to delete was already gone, another one was removed, and the run has
\* written the tracker.
C17_Witness ==
  /\ pc = "done"
  /\ tracker_file.lines # <<>>
  /\ \E gone \in files_to_delete : gone \notin plan_disk
  /\ \E removed \in files_to_delete : removed \in plan_disk /\ removed \notin disk

\* The filenames the tracker file references under the group of this invocation.
FileReferences ==
  IF tracker_file.present /\ FileRead.status = "ok"
       /\ DictHas(FileRead.tracker, GroupName(args))
  THEN ReferencedFilenames(DictGet(FileRead.tracker, GroupName(args)))
  ELSE {}

(* C18: in an invocation the new archive file is created first, the orphaned      *)
(* files are deleted next and the tracker is written last: a file appears in the *)
(* destination only in the archive step, files disappear only in the delete step *)
(* that follows it, and the tracker file changes only after that; so once the    *)
(* files are deleted and until the tracker is written the tracker file still     *)
(* references every deleted file the old section referenced.                     *)
C18_DeleteBeforePersist ==
  /\ [](pc = "persist" =>
          \A filename \in files_to_delete :
            filename \in ReferencedFilenames(loaded) /\ filename \in FileReferences)
  /\ [][/\ (runs' = runs /\ ~(disk' \subseteq disk)) => (pc = "archive" /\ pc' = "delete")
        /\ (runs' = runs /\ ~(disk \subseteq disk')) => pc = "delete"
        /\ tracker_file' # tracker_file => pc \in {"persist", "write"}
        /\ pc = "archive" => pc' \in {"delete", "crashed"}
        /\ pc = "delete" => pc' \in {"persist", "aborted", "crashed"}
        /\ pc = "persist" => pc' \in {"write", "aborted", "crashed"}
        /\ pc = "write" => pc' \in {"done", "crashed"}]_vars

\* The process was killed after it deleted a file and before it wrote the tracker:
\* the tracker file references a file that is gone, and not the new archive.
C18_Witness ==
  /\ pc = "crashed"
  /\ \E filename \in files_to_delete :
       /\ filename \in plan_disk
       /\ filename \notin disk
       /\ filename \in FileReferences
  /\ wanted # <<>>
  /\ ArchiveFilename(args) \in disk
  /\ ArchiveFilename(args) \notin FileReferences

\* The section the tracker file holds for a group; <<>> when it holds none.
FileSection(group) ==
  LET read == FileRead
  IN IF tracker_file.present /\ read.status = "ok" /\ DictHas(read.tracker, group)
     THEN DictGet(read.tracker, group)
     ELSE <<>>

\* Both invocations ran to the end, and the one that wrote second had loaded the
\* tracker before the first one wrote and opened the tracker file after it.
Raced == pc = "done" /\ other.pc = "done" /\ race.overlap

(* C19: nothing excludes two invocations on one tracker file from each other.     *)
(* When both load the tracker before either persists and both run to the end,    *)
(* the tracker file holds the tracker of the invocation that wrote last: the     *)
(* section of the other invocation is there as it was loaded, or not at all,     *)
(* without the archive that invocation registered, and the section of the last   *)
(* writer is there as that invocation left it.                                   *)
C19_LostUpdate ==
  Raced =>
    IF race.first = "main"
    THEN /\ FileSection(GroupName(args)) \in {<<>>, loaded}
         /\ NewArchive \notin ArchivesOf(FileSection(GroupName(args)))
         /\ ArchivesOf(FileSection(GroupName(other.args)))
              = ArchivesOf(SectionValue(other.heap, other.new_tracker_section))
    ELSE /\ FileSection(GroupName(other.args)) \in {<<>>, other.loaded}
         /\ [timestamp |-> other.args.now, file |-> ArchiveFilename(other.args)]
              \notin ArchivesOf(FileSection(GroupName(other.args)))
         /\ ArchivesOf(FileSection(GroupName(args))) = ArchivesOf(NewSection)

\* Both invocations ended and the tracker file references a file the first writer
\* deleted and not the archive file it created.
C19_Witness ==
  /\ Raced
  /\ race.first = "main"
  /\ \E filename \in files_to_delete :
       /\ filename \in plan_disk
       /\ filename \notin disk
       /\ filename \in FileReferences
  /\ wanted # <<>>
  /\ ArchiveFilename(args) \in disk
  /\ ArchiveFilename(args) \notin FileReferences

\* The text of the tracker this invocation is to persist.
NewTrackerText ==
  write_tracker(TrackerValue(heap, DictPut(tracker, GroupName(args), new_tracker_section)),
                periods, VERSION)

(* C20: the tracker file is replaced in one step by the complete new text (a      *)
(* temporary file renamed over it) and is never truncated in place: every step   *)
(* leaves it as it was or holding the whole new tracker, so that a process       *)
(* killed during persistence leaves it fully old or fully new.                   *)
C20_AtomicPersist ==
  [][\/ tracker_file' = tracker_file
     \/ tracker_file' = [present |-> TRUE, lines |-> NewTrackerText]]_vars

(* C22: an invocation creates at most one file, in the archive step, and it does  *)
(* so exactly when wanted is not empty: then the new archive (the copy, or in     *)
(* group mode the target file itself) is in the destination and is the one       *)
(* reference the step adds to the section; when wanted is empty the step adds no *)
(* file and no reference.                                                        *)
C22_OneArchiveIffWanted ==
  /\ [](pc \in {"delete", "persist", "write", "done"} =>
          IF wanted # <<>>
          THEN /\ ArchiveFilename(args) \in disk
               /\ ArchivesOf(NewSection) \ ArchivesOf(planned) = {NewArchive}
          ELSE /\ disk \subseteq plan_disk
               /\ NewSection = planned)
  /\ [][~(disk' \subseteq disk) =>
          /\ pc = "archive"
          /\ wanted # <<>>
          /\ args.group_name = <<>>
          /\ disk' \ disk = {ArchiveFilename(args)}]_vars

\* A plain run made the copy for two wanted slots; the copy was not there before.
C22_Witness ==
  /\ pc = "delete"
  /\ args.group_name = <<>>
  /\ Len(wanted) >= 2
  /\ ArchiveFilename(args) \in disk \ plan_disk
  /\ ArchivesOf(planned) # {}

\* Within every period of a section the populated slots hold strictly younger
\* archives at lower indexes.
Chronological(section) ==
  \A p \in DOMAIN section :
    \A i, j \in 1..Len(section[p]) :
      (i < j /\ section[p][i] # <<>> /\ section[p][j] # <<>>) =>
        section[p][i][1].timestamp > section[p][j][1].timestamp

\* No archive of the old section is from after now.
NoneFromTheFuture == \A a \in ArchivesOf(loaded) : a.timestamp <= args.now

(* C24: when no archive of the old section has a timestamp greater than now, the  *)
(* section the run builds, and the section of the group in the tracker file it   *)
(* writes, hold in every period strictly decreasing timestamps as the slot index *)
(* increases: registering the new archive puts no younger archive behind an      *)
(* older one.                                                                    *)
C24_ChronologicalSlots ==
  NoneFromTheFuture =>
    /\ pc \in {"delete", "persist", "write", "done"} => Chronological(NewSection)
    /\ pc = "done" => Chronological(FileSection(GroupName(args)))

\* The new archive is in slot 1 of a period whose slot 2 holds an older archive, in
\* the tracker file.
C24_Witness ==
  /\ pc = "done"
  /\ NoneFromTheFuture
  /\ LET section == FileSection(GroupName(args))
     IN \E p \in DOMAIN section :
          /\ Len(section[p]) >= 2
          /\ section[p][1] = <<NewArchive>>
          /\ section[p][2] # <<>>

(* C26: after a completed run with required copies C >= 1, the section of the     *)
(* group in the tracker file holds, in slot 1 of every policy period, an archive *)
(* whose timestamp is in (now - L, now], L being the duration of the period.     *)
C26_CurrentCopyEverywhere ==
  (pc = "done" /\ args.copies >= 1) =>
    LET section == FileSection(GroupName(args))
    IN \A k \in 1..Len(periods) :
         LET p == periods[k].name
         IN /\ p \in DOMAIN section
            /\ section[p][1] # <<>>
            /\ args.now - periods[k].length < section[p][1][1].timestamp
            /\ section[p][1][1].timestamp <= args.now

\* Under the six periods of PERIODS, slot 1 of one period kept an archive of the old
\* section and slot 1 of another took the new archive.
C26_Witness ==
  /\ pc = "done"
  /\ args.copies >= 1
  /\ Len(periods) = 6
  /\ LET section == FileSection(GroupName(args))
     IN \E p, q \in DOMAIN section :
          /\ section[p][1] = <<NewArchive>>
          /\ section[q][1] # <<>>
          /\ section[q][1][1] \in ArchivesOf(loaded)

(* C30: when a run ends because a file could not be deleted, the tracker file     *)
(* references no file the run deleted before that, and it references every       *)
(* archive file the run created.                                                 *)
C30_ConsistentAfterFailedDelete ==
  [][(pc = "delete" /\ pc' = "aborted") =>
       /\ tracker_file' = tracker_file
       /\ \A filename \in disk \ disk' : filename \notin FileReferences
       /\ \A filename \in disk' \ plan_disk : filename \in FileReferences]_vars

\* The archive slot 1 of `forever` held in the tracker this run loaded, as a sequence
\* of at most one archive.
ForeverKept ==
  IF forever \in DOMAIN loaded /\ Len(loaded[forever]) >= 1 THEN loaded[forever][1]
  ELSE <<>>

\* This run has planned and not yet completed, it follows a completed run whose now
\* was not greater, and the archive of `forever` slot 1 has a timestamp of 2 or more
\* and its file in the destination.
ForeverSettled ==
  /\ pc \in {"archive", "delete", "persist", "write"}
  /\ history.last.args # NoArgs
  /\ args.now >= history.last.args.now
  /\ ForeverKept # <<>>
  /\ ForeverKept[1].timestamp >= 2
  /\ ForeverKept[1].file \in plan_disk

(* C21: once slot 1 of `forever` holds an archive with a timestamp of 2 or more   *)
(* whose file stays in the destination, a later run whose now is not smaller     *)
(* does not want {forever, 1}, keeps that archive in slot 1 of `forever`, and    *)
(* does not delete its file.                                                     *)
C21_ForeverKeepsItsArchive ==
  ForeverSettled =>
    /\ \A k \in 1..Len(wanted) : wanted[k] # [period |-> forever, copy |-> 1]
    /\ forever \in DOMAIN NewSection
    /\ Len(NewSection[forever]) >= 1
    /\ NewSection[forever][1] = ForeverKept
    /\ ForeverKept[1].file \notin files_to_delete

\* The same with one copy or more required: not held either.
C21_WithCopies == (ForeverSettled /\ args.copies >= 1) => C21_ForeverKeepsItsArchive

\* With one copy or more required and a now that is not after the process start
\* time (the default is the start time), the run keeps the archive.
C21_NowNotAhead ==
  (ForeverSettled /\ args.copies >= 1 /\ args.now <= NOW) => C21_ForeverKeepsItsArchive

(* C27: after completed runs for one group that began without tracker, with       *)
(* nothing else changing the destination, the archive files of the runs that are *)
(* in the destination are exactly the files the section of the group in the      *)
(* tracker file references, and they are at most (number of periods) x C.        *)
C27_FilesMatchReferences ==
  pc = "done" =>
    LET referenced == ReferencedFilenames(FileSection(GroupName(args)))
    IN /\ history.created \cap disk = referenced
       /\ Cardinality(referenced) <= Len(periods) * args.copies

\* After the second run the destination holds the archive file that run created,
\* and the file the first run created is gone.
C27_Witness ==
  /\ pc = "done"
  /\ runs >= 2
  /\ args.group_name = <<>>
  /\ ArchiveFilename(args) \in history.created \cap disk
  /\ history.created \ disk # {}

\* This run has planned and not yet completed, and it repeats the completed run
\* before it: the same now, the same periods, the same number of copies (one or
\* more) for the same file and group, and every file the loaded section
\* references is in the destination.
Repeated ==
  /\ pc \in {"archive", "delete", "persist", "write"}
  /\ history.last.args # NoArgs
  /\ history.last.NOW = NOW
  /\ history.last.args = [args EXCEPT !.new = history.last.args.new]
  /\ args.copies >= 1
  /\ ReferencedFilenames(loaded) \subseteq plan_disk

(* C28: a run that repeats a completed run at the same now, with the same periods *)
(* and copies (one or more) and every referenced file present, wants nothing,    *)
(* plans the section it loaded, persists the tracker text that is in the file,   *)
(* creates no file and deletes none.                                             *)
C28_RepeatChangesNothing ==
  Repeated =>
    /\ wanted = <<>>
    /\ PopulatedSlots(NewSection) = PopulatedSlots(loaded)
    /\ pc \in {"archive", "delete", "persist"} => NewTrackerText = tracker_file.lines
    /\ files_to_delete = {}
    /\ disk = plan_disk

\* A repeated run reaches the write of a section that holds two archives.
C28_Witness ==
  /\ Repeated
  /\ pc = "write"
  /\ Cardinality(ReferencedFilenames(loaded)) >= 2

\* The filenames the tracker file references, under every group.
FileReferencesAll ==
  LET read == FileRead
  IN IF tracker_file.present /\ read.status = "ok"
     THEN UNION {ReferencedFilenames(read.tracker[k].section) :
                   k \in 1..Len(read.tracker)}
     ELSE {}

(* C29: when an invocation has written the tracker, no section of the tracker     *)
(* file, of the group of the invocation or of another group, references a file   *)
(* of the files_to_delete of the invocation.                                     *)
C29_DeletedNowhereReferenced ==
  pc = "done" => files_to_delete \cap FileReferencesAll = {}

\* The same for the group of the invocation alone: held.
C29_DeletedNotInOwnSection ==
  pc = "done" => files_to_delete \cap FileReferences = {}

\* The populated slots a tracker holds for the groups other than `group`, as
\* <<path, period, index, timestamp, filename>>.
OtherSlots(entries, group) ==
  UNION {LET section == entries[k].section
         IN {<<entries[k].path, pi[1], pi[2],
               section[pi[1]][pi[2]][1].timestamp, section[pi[1]][pi[2]][1].file>> :
               pi \in PopulatedSlots(section)} :
         k \in {j \in 1..Len(entries) : entries[j].path # group}}

\* This invocation loaded a tracker file that read_tracker accepts, and has
\* written the tracker.
LoadedAndWritten ==
  /\ pc = "done"
  /\ history.file.present
  /\ read_tracker(history.file.lines, periods, VERSION).status = "ok"

(* C25: an invocation replaces only the section of its group in the tracker:     *)
(* the populated slots of every other group in the tracker file it wrote         *)
(* (period, index, timestamp, filename) are those of the tracker file it          *)
(* loaded, and a file that only other groups reference is in the destination     *)
(* after the invocation exactly when it was there before.                        *)
C25_OtherGroupsUntouched ==
  LoadedAndWritten =>
    LET before == read_tracker(history.file.lines, periods, VERSION)
        after  == FileRead
        group  == GroupName(args)
        others == {slot[5] : slot \in OtherSlots(before.tracker, group)}
        own    == ReferencedFilenames(loaded) \cup ReferencedFilenames(NewSection)
    IN /\ tracker_file.present
       /\ after.status = "ok"
       /\ OtherSlots(after.tracker, group) = OtherSlots(before.tracker, group)
       /\ \A filename \in others \ own : filename \in disk <=> filename \in plan_disk

\* An invocation that registered a new archive and deleted a file has written a
\* tracker that holds populated slots of another group.
C25_Witness ==
  /\ LoadedAndWritten
  /\ wanted # <<>>
  /\ files_to_delete \cap plan_disk # {}
  /\ OtherSlots(FileRead.tracker, GroupName(args)) # {}
  /\ FileSection(GroupName(args)) # loaded

\* The periods of a fixed length: all but `forever`, whose length is the process
\* start time less one.
FixedPeriods == {periods[k].name : k \in 1..Len(periods)} \ {forever}

\* An invocation with two copies or more has completed and left slot 2 of period
\* p empty.
SlotTwoEmpty(p) ==
  /\ pc = "done"
  /\ args.copies >= 2
  /\ p \in DOMAIN NewSection
  /\ Len(NewSection[p]) >= 2
  /\ NewSection[p][2] = <<>>

\* An invocation has completed with slot 2 of period p holding an archive of the
\* section it loaded, older than its now.
SlotTwoAged(p) ==
  /\ pc = "done"
  /\ p \in DOMAIN NewSection
  /\ Len(NewSection[p]) >= 2
  /\ NewSection[p][2] # <<>>
  /\ NewSection[p][2][1] \in ArchivesOf(loaded)
  /\ NewSection[p][2][1].timestamp < args.now

\* The clock of the model runs for two lengths of period p after this invocation.
HealsInTime(p) == args.now + 2 * PeriodLength(periods, p) <= MaxNow

\* No invocation fails.
NoneAborted == [](pc # "aborted")

(* C23, as stated: for every period, `forever` included, when invocations keep    *)
(* occurring with consecutive values of now at most the length of the period     *)
(* apart and none fails, an empty slot 2 is populated in a later invocation by   *)
(* an archive that was created earlier.                                          *)
C23_GapsSelfHeal ==
  NoneAborted =>
    \A p \in {hourly, daily, weekly, monthly, yearly, forever} :
      SlotTwoEmpty(p) ~> SlotTwoAged(p)

\* Slot 2 of `forever` is empty after every invocation: its window ends at
\* now - (NOW - 1), which is 1 with the default now.
C23_ForeverSlotTwoStaysEmpty ==
  (pc = "done" /\ args.copies >= 2) => SlotTwoEmpty(forever)

(* C23, amended: get_plan wants copy 1 of a period and no other copy; and for     *)
(* every period but `forever`, when invocations keep occurring, the clock        *)
(* advances again and again by at most an hour (no more than the length of any   *)
(* period) and no invocation fails, an empty slot 2 of the period is populated   *)
(* in a later invocation by an archive the section already held, older than the  *)
(* now of that invocation. (The model's clock stops at MaxNow: the property is   *)
(* asked of the gaps seen two period lengths before that.)                       *)
C23_GapsOfFixedPeriodsHeal ==
  /\ [](\A k \in 1..Len(wanted) : wanted[k].copy = 1)
  /\ (SF_vars(BeginLater) /\ NoneAborted) =>
       \A p \in {hourly, daily, weekly, monthly, yearly} :
         (SlotTwoEmpty(p) /\ HealsInTime(p)) ~> SlotTwoAged(p)

\* Slot 2 of daily, empty after the first invocation, holds the archive that
\* invocation created, while slot 2 of hourly is empty.
C23_Witness ==
  /\ SlotTwoAged(daily)
  /\ NewSection[daily][2][1].timestamp = 1000000
  /\ SlotTwoEmpty(hourly)
====
